---------------------------- MODULE Spec2Model ----------------------------
(***************************************************************************)
(* Model of the file-streaming examples of study-go:                       *)
(*   - ioPipePattern    (step05): a producer goroutine copies a file into  *)
(*                       an io.Pipe, the main goroutine reads the pipe and *)
(*                       compresses what it reads;                         *)
(*   - limitReaderPattern (step05): io.ReadAll over io.LimitReader;        *)
(*   - teeReaderPattern (step05): io.Copy over io.TeeReader into a file,   *)
(*                       mirrored into an md5 hash;                        *)
(*   - downloadHandler, rangeDownloadHandler, uploadHandler (step09): the  *)
(*                       HTTP handlers;                                    *)
(*   - ProgressReader over ThrottledReader over a file (step11);           *)
(*   - customReaderWriterPattern (step05): io.Copy from UpperCaseReader    *)
(*                       into LineNumberWriter;                            *)
(*   - readFileWithTimeout (step09), copyFileWithPool (step03) and         *)
(*                       compressStream (step02), from the lessons' text;  *)
(*   - safeCopyFile (step09), the read loops chunkedFilePattern and       *)
(*                       readPattern, compressFilesParallel and            *)
(*                       LogAnalyzer.AnalyzerFile (step03), and the two    *)
(*                       ThrottledReaders (step11, step02) under io.Copy.  *)
(* Each pattern is a program of its own (a func called from main), so each *)
(* has its own specification; the variables of the other patterns stay at  *)
(* their initial value.                                                    *)
(***************************************************************************)
EXTENDS Integers, Sequences, FiniteSets, TLC

\* ------------------------------------------------------------------ bounds
\* Longest file content the model enumerates.
MaxFileLen == 3
\* Byte values are 0..MaxByte.
MaxByte == 1
\* Length of the buffer io.Copy reads into (32 KiB in the library, scaled).
CopyBuf == 2

Byte == 0..MaxByte

Min(a, b) == IF a < b THEN a ELSE b

\* All byte sequences of length at most n.
SeqsUpTo(n) == UNION {[1..k -> Byte] : k \in 0..n}

\* s[1..n] and s[n+1..]
Take(s, n) == SubSeq(s, 1, Min(n, Len(s)))
Drop(s, n) == SubSeq(s, Min(n, Len(s)) + 1, Len(s))

IsPrefix(s, t) == Len(s) <= Len(t) /\ s = SubSeq(t, 1, Len(s))

\* error values; Nil is Go's nil error
Nil == "nil"
EOF == "EOF"
OpenErr == "open fake.log: no such file"
ReadErr == "read fake.log: input/output error"

VARIABLES
    \* ---- ioPipePattern
    fileData,    \* content of fake.log
    cBufLen,     \* length of the buffer the consumer passes to pr.Read
    ppc,         \* producer goroutine: position
    filePos,     \* producer: bytes of the file read so far
    pb,          \* producer: the slice b of the pipe write in progress
    perr,        \* producer: err of io.Copy(pw, file)
    handed,      \* history: bytes passed to pw.Write so far
    written,     \* history: bytes pw.Write has counted as written (n += nw)
    wrCh,        \* pipe: chunks offered on wrCh by a writer blocked in Write
    done,        \* pipe: the done channel is closed
    werr,        \* pipe: onceError set on the write side
    cpc,         \* consumer (main goroutine): position
    cgot,        \* consumer: bytes the pipe read in progress copied out
    clast,       \* consumer: error of the last pr.Read that returned
    received,    \* history: bytes pr.Read has returned
    compressed,  \* bytes gzipWriter.Write accepted
    outcome,     \* what ioPipePattern printed
    \* ---- limitReaderPattern
    lrData,      \* longText, the content of the strings.Reader
    lrLimit,     \* the n of io.LimitReader(reader, n)
    lrN,         \* LimitedReader.N, the bytes still allowed
    lrPos,       \* strings.Reader: index of the next byte
    lrLog,       \* history: the result <<bytes, err>> of every limited.Read
    lrAll,       \* the b io.ReadAll(limited) accumulates and returns
    lrReturned,  \* io.ReadAll has returned
    lrBuff,      \* <<result>> of reader.Read(buff) once made, <<>> before
    \* ---- teeReaderPattern
    tData,       \* data, the content of the strings.Reader
    tPos,        \* strings.Reader: index of the next byte
    tpc,         \* position in teeReaderPattern
    tChunk,      \* io.Copy: buf[:nr] of the read just made
    tLast,       \* error of the last teeReader.Read
    tReturned,   \* history: bytes teeReader.Read has returned
    tMirror,     \* bytes written to hash (md5)
    tFile,       \* content of tee_reader.txt
    tWritten,    \* io.Copy: written
    tErr,        \* io.Copy: err (the pattern discards it)
    tReport,     \* <<[checksum, written]>> once printed
    \* ---- the uploads directory and rangeDownloadHandler
    disk,        \* ./uploads: file name -> File(bytes) or NoFile
    dlParam,     \* request: the `file` query parameter, as path segments
    dlRange,     \* request: the Range header
    dpc,         \* position in rangeDownloadHandler
    dlName,      \* safeFilename
    dlStatus,    \* response: status code, 0 while none is written
    dlDisp,      \* response: filename of Content-Disposition, <<>> if unset
    dlCRange,    \* response: Content-Range, <<>> if unset
    dlCLen,      \* response: Content-Length, <<>> if unset
    dlSegs,      \* ServeContent: the [start, length] regions still to send
    dlBody,      \* response: content bytes written so far
    dlErr,       \* error of the copy to the client
    \* ---- uploadHandler
    upMethod,    \* request: r.Method
    upForm,      \* request body: "bad" (no multipart form), "nofile" (a form
                 \* without the part "file") or "ok"
    upFileName,  \* request: header.Filename of the part
    upBody,      \* request: the bytes of the part
    upc,         \* position in uploadHandler
    upPos,       \* io.Copy: bytes of the part read so far
    upWritten,   \* io.Copy: written
    upCreated,   \* os.Create has made (or truncated) the destination
    upStatus,    \* response: status code, 0 while none is written
    upReply,     \* response: <<bytes reported>> on success
    upRawName,   \* request: the filename parameter of the part, as the
                 \* client wrote it, in path segments
    upDest,      \* the path os.Create made or truncated, resolved; <<>> if none
    upOutside,   \* paths created or truncated outside ./uploads
    upDisk0,     \* ./uploads when the request arrived
    upStored,    \* the bytes of the destination that have reached the
                 \* storage device (the rest is in the kernel's cache)
    \* ---- step11: ThrottledReader over ProgressReader over a file
    chData,      \* bytes of fake.log
    chOff,       \* read offset of the *os.File
    now,         \* the monotonic clock, in ticks
    prTotal,     \* ProgressReader.total
    prCurrent,   \* ProgressReader.current
    prHasCb,     \* ProgressReader.callback != nil
    prReads,     \* Read calls made on the ProgressReader
    prFaults,    \* ... of which the file returned a fault
    prCalls,     \* invocations of the callback
    prArg,       \* <<[current, total]>> of the latest invocation
    prInner,     \* what the file returned in the latest ProgressReader.Read
    prRet,       \* what that ProgressReader.Read returned
    prSeen,      \* all bytes returned by the ProgressReader so far
    trBps,       \* ThrottledReader.bytesPerSec
    trLastRead,  \* ThrottledReader.lastRead
    trReads,     \* Read calls made on the ThrottledReader
    trLen,       \* len(p) of the latest ThrottledReader.Read
    trAllowed,   \* allowedBytes of that call
    trAsked,     \* <<len(p)>> handed to the inner Read, <<>> if not called
    trSlept,     \* that call slept
    trRet,       \* what that call returned
    trHadEOF,    \* a call before that one returned io.EOF
    prHadEOF,    \* a ProgressReader.Read before the latest returned io.EOF
    trOutAtCb,   \* history: the bytes ThrottledReader.Read had returned to
                 \* its caller when the callback was last invoked
    trFirst,     \* history: the time of the first ThrottledReader.Read, -1
                 \* before it
    trIdle,      \* history: since that Read the caller let time pass between
                 \* two calls, or asked for less than a full buffer
    \* ---- downloadHandler
    pdParam,     \* request: the `file` query parameter, as path segments
    pdc,         \* position in downloadHandler
    pdName,      \* safeFilename
    pdStatus,    \* response: status code, 0 while none is written
    pdDisp,      \* response: <<path segments of the filename of
                 \* Content-Disposition>>, <<>> if unset
    pdCLen,      \* response: <<Content-Length>>, <<>> if unset
    pdBody,      \* response: bytes written so far
    pdErr,       \* err of io.Copy(w, file)
    pdLog,       \* <<[name, written]>> once the completion is logged
    \* ---- customReaderWriterPattern
    cuData,      \* testData
    cuPos,       \* read offset of the strings.Reader
    cupc,        \* position in io.Copy(lineNumberWriter, upperReader)
    cuChunk,     \* io.Copy: buf[:nr] after the Read
    cuInner,     \* what u.source.Read returned in the latest Read
    cuReadRet,   \* what that UpperCaseReader.Read returned
    cuStdout,    \* dest.Write calls os.Stdout still accepts; -1: all
    cuOut,       \* what os.Stdout has received
    lwLineNumber, \* LineNumberWriter.lineNumber
    lwNewLine,   \* LineNumberWriter.newLine
    lwRet,       \* what the latest LineNumberWriter.Write returned
    lwDestErrs,  \* dest.Write calls that failed during that Write
    cuWritten,   \* io.Copy: written
    cuEager,     \* the source returns its last bytes together with io.EOF
    cuGot,       \* history: the bytes UpperCaseReader.Read has returned
    lwAccepted,  \* bytes of p that dest accepted during the latest Write
    cuErr,       \* io.Copy: err
    \* ---- two concurrent requests to uploadHandler
    uuName,      \* per request: header.Filename of the part
    uuBody,      \* per request: the bytes of the part
    uupc,        \* per request: position in uploadHandler
    uuPos,       \* per request: offset of its descriptor dst (bytes io.Copy wrote)
    uuStatus,    \* per request: status code, 0 while none is written
    uuClash,     \* history: a request created, truncated or wrote a file
                 \* that the other request had open for writing
    \* ---- readFileWithTimeout
    rtData,      \* content of the file
    rtFault,     \* the read of the file that fails (0: none)
    rtg,         \* reading goroutine: position
    rtPos,       \* reading goroutine: bytes io.ReadAll has read
    rtReads,     \* reading goroutine: Read calls io.ReadAll has made
    rtResultChan,\* resultChan, capacity 1
    rtErrorChan, \* errorChan, capacity 1
    rtm,         \* readFileWithTimeout: position ("select" or "returned")
    rtRet,       \* what readFileWithTimeout returned: [data, err]
    rtLate,      \* history: Read calls made after the timeout was returned
    \* ---- syncPoolTestPattern: concurrent copyFileWithPool calls
    plPool,      \* bufferPool: the buffers it holds
    plMade,      \* buffers made by bufferPool.New so far
    plpc,        \* per call: position in copyFileWithPool
    plHeld,      \* per call: the buffer bufferPtr points to, 0 if none
    plErr,       \* per call: the error returned
    plGot,       \* history, per call: the buffer Get returned, 0 if none
    plBack,      \* history, per call: the buffer it Put back, 0 if none
    \* ---- compressStream
    csData,      \* bytes the upstream reader r holds
    csFault,     \* the Read of r that fails (0: none)
    csg,         \* goroutine of compressStream: position
    csPos,       \* goroutine: bytes of r read so far
    csReads,     \* goroutine: Read calls io.Copy made on r
    csCopyErr,   \* what io.Copy(gzipWriter, r) returned (the goroutine drops it)
    csSlot,      \* pipe: the chunk a blocked pw.Write offers, <<>> if none
    csErr,       \* pipe: the error stored on the write side
    csGot,       \* downstream: what its reads of pr have returned
    csEnd,       \* downstream: the error of the read that ended its io.Copy
    \* ---- chunkedFilePattern, readPattern
    rlLoop,      \* which loop runs: "chunked" or "read"
    rlData,      \* bytes the source holds
    rlPos,       \* bytes of the source read so far
    rlReads,     \* Read calls the loop has made
    rlLast,      \* what the latest Read returned
    rlTotal,     \* bytes the loop body has processed
    rlpc,        \* position: "loop" or "done"
    \* ---- safeCopyFile
    scSrc,       \* the file at src ("source.txt"), if any
    scDst,       \* the file at dst ("destination.txt"), if any
    scFault,     \* the step that fails: "none", "create", "copy" or "sync"
    scpc,        \* position in safeCopyFile
    scErr,       \* the named result err
    scPos,       \* bytes io.Copy has written to destFile
    scDstOpen,   \* destFile is open
    scCreated,   \* os.Create(dst) has succeeded
    scSynced,    \* what dst held when destFile.Sync() succeeded on the open file
    \* ---- compressFilesParallel
    cpFiles,     \* per file of the list: TRUE if compressFile fails on it
    cpWorkers,   \* the argument workers
    cpJobs,      \* the channel jobs: indexes of the files in it
    cpJobsClosed,\* close(jobs) has run
    cpResults,   \* the channel results
    cpw,         \* per worker goroutine: position
    cpwJob,      \* per worker goroutine: the file it holds, 0 if none
    cpm,         \* the caller: position
    cpSent,      \* the caller: files sent to jobs
    cpCount,     \* the caller: errorCount
    cpSeen,      \* the caller: values received from results
    cpRet,       \* what compressFilesParallel returned
    cpTaken,     \* history, per file: times it was received from jobs
    cpDone,      \* history, per file: times compressFile ran on it
    \* ---- LogAnalyzer.AnalyzerFile
    laOpenOk,    \* os.Open(filename) succeeds
    laLines,     \* the lines of the log file, each "ERROR" or "INFO"
    laNoNewline, \* the last line has no newline at its end
    laFault,     \* the ReadString that fails (0: none)
    lapc,        \* position in AnalyzerFile
    laNext,      \* lines ReadString has returned
    laReads,     \* ReadString calls made
    laStats,     \* la.stats: TotalLines, ErrorCount, InfoCount
    laRet,       \* what AnalyzerFile returned
    \* ---- the two ThrottledReaders under a copy loop
    tbKind,      \* "elapsed": ThrottledReader of step11; "bucket": of step02
    tbBps,       \* bytesPerSec
    tbSize,      \* bytes the inner source holds
    tbGot,       \* bytes the copy loop has received
    tbElapsed,   \* ticks since lastRead (step11) or lastTime (step02)
    tbBucket,    \* step02: the bucket
    tbEOF        \* the copy loop has received io.EOF

pipeVars == <<fileData, cBufLen, ppc, filePos, pb, perr, handed, written,
              wrCh, done, werr, cpc, cgot, clast, received, compressed, outcome>>

limVars == <<lrData, lrLimit, lrN, lrPos, lrLog, lrAll, lrReturned, lrBuff>>

teeVars == <<tData, tPos, tpc, tChunk, tLast, tReturned, tMirror, tFile,
             tWritten, tErr, tReport>>

diskVars == <<disk>>

dlVars == <<dlParam, dlRange, dpc, dlName, dlStatus, dlDisp, dlCRange, dlCLen,
            dlSegs, dlBody, dlErr>>

upVars == <<upMethod, upForm, upFileName, upBody, upc, upPos, upWritten,
            upCreated, upStatus, upReply, upRawName, upDest, upOutside, upDisk0, upStored>>

chVars == <<chData, chOff, now, prTotal, prCurrent, prHasCb, prReads, prFaults,
            prCalls, prArg, prInner, prRet, prSeen, trBps, trLastRead, trReads,
            trLen, trAllowed, trAsked, trSlept, trRet, trHadEOF, prHadEOF,
           trFirst, trIdle, trOutAtCb>>

pdVars == <<pdParam, pdc, pdName, pdStatus, pdDisp, pdCLen, pdBody, pdErr, pdLog>>

cuVars == <<cuData, cuPos, cupc, cuChunk, cuInner, cuReadRet, cuStdout, cuOut,
            lwLineNumber, lwNewLine, lwRet, lwDestErrs, cuWritten, cuErr,
           cuEager, cuGot, lwAccepted>>

uuVars == <<uuName, uuBody, uupc, uuPos, uuStatus, uuClash>>

rtVars == <<rtData, rtFault, rtg, rtPos, rtReads, rtResultChan, rtErrorChan,
            rtm, rtRet, rtLate>>

plVars == <<plPool, plMade, plpc, plHeld, plErr, plGot, plBack>>

csVars == <<csData, csFault, csg, csPos, csReads, csCopyErr, csSlot, csErr,
            csGot, csEnd>>

rlVars == <<rlLoop, rlData, rlPos, rlReads, rlLast, rlTotal, rlpc>>

scVars == <<scSrc, scDst, scFault, scpc, scErr, scPos, scDstOpen, scCreated,
            scSynced>>

cpVars == <<cpFiles, cpWorkers, cpJobs, cpJobsClosed, cpResults, cpw, cpwJob,
            cpm, cpSent, cpCount, cpSeen, cpRet, cpTaken, cpDone>>

laVars == <<laOpenOk, laLines, laNoNewline, laFault, lapc, laNext, laReads,
            laStats, laRet>>

tbVars == <<tbKind, tbBps, tbSize, tbGot, tbElapsed, tbBucket, tbEOF>>

vars == <<pipeVars, limVars, teeVars, diskVars, dlVars, upVars, chVars, pdVars,
          cuVars,
              uuVars,
              rtVars,
              plVars,
              csVars,
              rlVars,
              scVars,
              cpVars,
              laVars,
              tbVars>>

\* What each pattern leaves alone: the state of the other patterns.
PipeFrame == UNCHANGED <<limVars, teeVars, diskVars, dlVars, upVars, chVars, pdVars,
              cuVars,
              uuVars,
              rtVars,
              plVars,
              csVars,
              rlVars,
              scVars,
              cpVars,
              laVars,
              tbVars>>
LimFrame == UNCHANGED <<pipeVars, teeVars, diskVars, dlVars, upVars, chVars, pdVars,
              cuVars,
              uuVars,
              rtVars,
              plVars,
              csVars,
              rlVars,
              scVars,
              cpVars,
              laVars,
              tbVars>>
TeeFrame == UNCHANGED <<pipeVars, limVars, diskVars, dlVars, upVars, chVars, pdVars,
              cuVars,
              uuVars,
              rtVars,
              plVars,
              csVars,
              rlVars,
              scVars,
              cpVars,
              laVars,
              tbVars>>
DlFrame == UNCHANGED <<pipeVars, limVars, teeVars, upVars, chVars, pdVars,
              cuVars,
              uuVars,
              rtVars,
              plVars,
              csVars,
              rlVars,
              scVars,
              cpVars,
              laVars,
              tbVars>>
UpFrame == UNCHANGED <<pipeVars, limVars, teeVars, dlVars, chVars, pdVars,
              cuVars,
              uuVars,
              rtVars,
              plVars,
              csVars,
              rlVars,
              scVars,
              cpVars,
              laVars,
              tbVars>>
ChFrame ==
    UNCHANGED <<pipeVars, limVars, teeVars, diskVars, dlVars, upVars, pdVars,
                cuVars,
              uuVars,
              rtVars,
              plVars,
              csVars,
              rlVars,
              scVars,
              cpVars,
              laVars,
              tbVars>>
CuFrame ==
    UNCHANGED <<pipeVars, limVars, teeVars, diskVars, dlVars, upVars, chVars,
                pdVars,
              uuVars,
              rtVars,
              plVars,
              csVars,
              rlVars,
              scVars,
              cpVars,
              laVars,
              tbVars>>
PdFrame == UNCHANGED <<pipeVars, limVars, teeVars, dlVars, upVars, chVars,
              cuVars,
              uuVars,
              rtVars,
              plVars,
              csVars,
              rlVars,
              scVars,
              cpVars,
              laVars,
              tbVars>>
UuFrame ==
    UNCHANGED <<pipeVars, limVars, teeVars, dlVars, upVars, chVars, pdVars,
                cuVars,
              rtVars,
              plVars,
              csVars,
              rlVars,
              scVars,
              cpVars,
              laVars,
              tbVars>>
RtFrame ==
    UNCHANGED <<pipeVars, limVars, teeVars, diskVars, dlVars, upVars,
                chVars, pdVars, cuVars, uuVars,
              plVars,
              csVars,
              rlVars,
              scVars,
              cpVars,
              laVars,
              tbVars>>
PlFrame ==
    UNCHANGED <<pipeVars, limVars, teeVars, diskVars, dlVars, upVars,
                chVars, pdVars, cuVars, uuVars, rtVars,
              csVars,
              rlVars,
              scVars,
              cpVars,
              laVars,
              tbVars>>
CsFrame ==
    UNCHANGED <<pipeVars, limVars, teeVars, diskVars, dlVars, upVars,
                chVars, pdVars, cuVars, uuVars, rtVars, plVars,
              rlVars,
              scVars,
              cpVars,
              laVars,
              tbVars>>
RlFrame ==
    UNCHANGED <<pipeVars, limVars, teeVars, diskVars, dlVars, upVars,
                chVars, pdVars, cuVars, uuVars, rtVars, plVars, csVars,
              scVars,
              cpVars,
              laVars,
              tbVars>>
ScFrame ==
    UNCHANGED <<pipeVars, limVars, teeVars, diskVars, dlVars, upVars,
                chVars, pdVars, cuVars, uuVars, rtVars, plVars, csVars, rlVars,
              cpVars,
              laVars,
              tbVars>>
CpFrame ==
    UNCHANGED <<pipeVars, limVars, teeVars, diskVars, dlVars, upVars,
                chVars, pdVars, cuVars, uuVars, rtVars, plVars, csVars, rlVars,
                scVars,
              laVars,
              tbVars>>
LaFrame ==
    UNCHANGED <<pipeVars, limVars, teeVars, diskVars, dlVars, upVars,
                chVars, pdVars, cuVars, uuVars, rtVars, plVars, csVars, rlVars, scVars,
                cpVars,
              tbVars>>
TbFrame ==
    UNCHANGED <<pipeVars, limVars, teeVars, diskVars, dlVars, upVars,
                chVars, pdVars, cuVars, uuVars, rtVars, plVars, csVars, rlVars, scVars,
                cpVars, laVars>>

\* ------------------------------------------------------------------ io.Pipe
\* A store that overwrites: the last error stored wins.
OnceErrorStoreLastWins(cur, err) == err

\* onceError.Store, as pw.CloseWithError and pw.Close use it: the first error
\* stored is kept.
OnceErrorStore(cur, err) == IF cur = Nil THEN err ELSE cur

\* pipe.read: nr := copy(b, bw), with len(b) = n
CopyOut(bw, n) == Take(bw, n)

\* b = b[nw+1:]: one byte too many is dropped.
RestOffByOne(b, nw) == Drop(b, nw + 1)

\* pipe.write: b = b[nw:]
Rest(b, nw) == Drop(b, nw)

\* A write that returns after its first transfer, whatever is left of b.
WriteLoopEndsAtOnce(b) == TRUE

\* pipe.write: the loop `for once := true; once || len(b) > 0; once = false`
\* is left after a transfer once no byte of b remains.
WriteLoopEnds(b) == Len(b) = 0

\* pipe.readCloseError with rerr unset (the consumer never closes pr)
ReadCloseError(w) == IF w # Nil THEN w ELSE "io: read/write on closed pipe"

\* The state of ioPipePattern when main does not call it.
PipeIdle ==
    /\ fileData = <<>>
    /\ cBufLen = 1
    /\ ppc = "idle"
    /\ filePos = 0
    /\ pb = <<>>
    /\ perr = Nil
    /\ handed = <<>>
    /\ written = <<>>
    /\ wrCh = <<>>
    /\ done = FALSE
    /\ werr = Nil
    /\ cpc = "idle"
    /\ cgot = <<>>
    /\ clast = Nil
    /\ received = <<>>
    /\ compressed = <<>>
    /\ outcome = "idle"

PipeInit ==
    /\ fileData \in SeqsUpTo(MaxFileLen)
    /\ cBufLen \in 1..CopyBuf
    /\ ppc = "open"
    /\ filePos = 0
    /\ pb = <<>>
    /\ perr = Nil
    /\ handed = <<>>
    /\ written = <<>>
    /\ wrCh = <<>>
    /\ done = FALSE
    /\ werr = Nil
    /\ cpc = "create"
    /\ cgot = <<>>
    /\ clast = Nil
    /\ received = <<>>
    /\ compressed = <<>>
    /\ outcome = "running"

\* ---- producer goroutine (ioPipePattern, the go func)

\* file, err := os.Open("fake.log") succeeds
ProducerOpen ==
    /\ ppc = "open"
    /\ ppc' = "copyRead"
    /\ UNCHANGED <<fileData, cBufLen, filePos, pb, perr, handed, written, wrCh,
                   done, werr, cpc, cgot, clast, received, compressed, outcome>>
    /\ PipeFrame

\* os.Open fails: pw.CloseWithError(err); return (the deferred pw.Close follows)
ProducerOpenFails ==
    /\ ppc = "open"
    /\ werr' = OnceErrorStore(werr, OpenErr)
    /\ done' = TRUE
    /\ perr' = OpenErr
    /\ ppc' = "deferClose"
    /\ UNCHANGED <<fileData, cBufLen, filePos, pb, handed, written, wrCh,
                   cpc, cgot, clast, received, compressed, outcome>>
    /\ PipeFrame

\* io.Copy(pw, file): file.Read returns 1..len(buf) bytes; io.Copy then calls
\* pw.Write(buf[:nr]), which offers the chunk on wrCh and blocks.
ProducerReadChunk ==
    /\ ppc = "copyRead"
    /\ filePos < Len(fileData)
    /\ \E nr \in 1..Min(CopyBuf, Len(fileData) - filePos) :
         LET chunk == SubSeq(fileData, filePos + 1, filePos + nr) IN
         /\ filePos' = filePos + nr
         /\ pb' = chunk
         /\ handed' = handed \o chunk
         /\ wrCh' = Append(wrCh, chunk)
    /\ ppc' = "offered"
    /\ UNCHANGED <<fileData, cBufLen, perr, written, done, werr,
                   cpc, cgot, clast, received, compressed, outcome>>
    /\ PipeFrame

\* io.Copy(pw, file): file.Read returns io.EOF; io.Copy returns nil and the
\* function returns (the deferred pw.Close follows)
ProducerReadEOF ==
    /\ ppc = "copyRead"
    /\ filePos = Len(fileData)
    /\ ppc' = "deferClose"
    /\ UNCHANGED <<fileData, cBufLen, filePos, pb, perr, handed, written, wrCh,
                   done, werr, cpc, cgot, clast, received, compressed, outcome>>
    /\ PipeFrame

\* io.Copy(pw, file): file.Read fails; io.Copy returns the error
ProducerReadFails ==
    /\ ppc = "copyRead"
    /\ perr' = ReadErr
    /\ ppc' = "closeErr"
    /\ UNCHANGED <<fileData, cBufLen, filePos, pb, handed, written, wrCh,
                   done, werr, cpc, cgot, clast, received, compressed, outcome>>
    /\ PipeFrame

\* if err != nil { pw.CloseWithError(err) }
ProducerCloseWithError ==
    /\ ppc = "closeErr"
    /\ werr' = OnceErrorStore(werr, perr)
    /\ done' = TRUE
    /\ ppc' = "deferClose"
    /\ UNCHANGED <<fileData, cBufLen, filePos, pb, perr, handed, written, wrCh,
                   cpc, cgot, clast, received, compressed, outcome>>
    /\ PipeFrame

\* defer pw.Close(): closeWrite(nil) stores io.EOF and closes done
ProducerDeferredClose ==
    /\ ppc = "deferClose"
    /\ werr' = OnceErrorStore(werr, EOF)
    /\ done' = TRUE
    /\ ppc' = "done"
    /\ UNCHANGED <<fileData, cBufLen, filePos, pb, perr, handed, written, wrCh,
                   cpc, cgot, clast, received, compressed, outcome>>
    /\ PipeFrame

\* ---- the rendezvous of pipe.write and pipe.read

\* `case bw := <-p.wrCh` of pipe.read meets `case p.wrCh <- b` of pipe.write:
\* the reader copies what fits its buffer, the writer waits on rdCh.
PipeTransfer ==
    /\ cpc = "read"
    /\ ppc = "offered"
    /\ wrCh # <<>>
    /\ cgot' = CopyOut(Head(wrCh), cBufLen)
    /\ wrCh' = Tail(wrCh)
    /\ cpc' = "ack"
    /\ ppc' = "waitAck"
    /\ UNCHANGED <<fileData, cBufLen, filePos, pb, perr, handed, written,
                   done, werr, clast, received, compressed, outcome>>
    /\ PipeFrame

\* `p.rdCh <- nr` of pipe.read meets `nw := <-p.rdCh` of pipe.write: the read
\* returns (nr, nil); the write drops nw bytes of b and either returns or
\* offers the rest.
PipeAck ==
    /\ cpc = "ack"
    /\ ppc = "waitAck"
    /\ LET nw == Len(cgot)
           b  == Rest(pb, nw) IN
         /\ pb' = b
         /\ written' = written \o Take(pb, nw)
         /\ IF WriteLoopEnds(b)
              THEN ppc' = "copyRead" /\ wrCh' = wrCh
              ELSE ppc' = "offered" /\ wrCh' = Append(wrCh, b)
    /\ received' = received \o cgot
    /\ clast' = Nil
    /\ cpc' = "gzipWrite"
    /\ UNCHANGED <<fileData, cBufLen, filePos, perr, handed, done, werr,
                   cgot, compressed, outcome>>
    /\ PipeFrame

\* ---- consumer (ioPipePattern, the main goroutine)

\* outFile, err := os.Create("compressed.zip") succeeds; io.Copy(gzipWriter, pr)
\* starts
ConsumerCreate ==
    /\ cpc = "create"
    /\ cpc' = "read"
    /\ UNCHANGED <<fileData, cBufLen, ppc, filePos, pb, perr, handed, written,
                   wrCh, done, werr, cgot, clast, received, compressed, outcome>>
    /\ PipeFrame

\* os.Create fails: the function prints and returns without reading the pipe
ConsumerCreateFails ==
    /\ cpc = "create"
    /\ cpc' = "done"
    /\ outcome' = "createFailed"
    /\ UNCHANGED <<fileData, cBufLen, ppc, filePos, pb, perr, handed, written,
                   wrCh, done, werr, cgot, clast, received, compressed>>
    /\ PipeFrame

\* pr.Read with done closed: `case <-p.done: return 0, p.readCloseError()`;
\* io.Copy ends, with err = nil when the error is io.EOF
ConsumerReadClosed ==
    /\ cpc = "read"
    /\ done
    /\ clast' = ReadCloseError(werr)
    /\ outcome' = IF ReadCloseError(werr) = EOF THEN "ok" ELSE "compressFailed"
    /\ cpc' = "done"
    /\ UNCHANGED <<fileData, cBufLen, ppc, filePos, pb, perr, handed, written,
                   wrCh, done, werr, cgot, received, compressed>>
    /\ PipeFrame

\* gzipWriter.Write(buf[:nr]) succeeds
ConsumerCompress ==
    /\ cpc = "gzipWrite"
    /\ compressed' = compressed \o cgot
    /\ cgot' = <<>>
    /\ cpc' = "read"
    /\ UNCHANGED <<fileData, cBufLen, ppc, filePos, pb, perr, handed, written,
                   wrCh, done, werr, clast, received, outcome>>
    /\ PipeFrame

\* gzipWriter.Write fails: io.Copy returns the error, the function prints and
\* returns
ConsumerCompressFails ==
    /\ cpc = "gzipWrite"
    /\ cgot' = <<>>
    /\ outcome' = "compressFailed"
    /\ cpc' = "done"
    /\ UNCHANGED <<fileData, cBufLen, ppc, filePos, pb, perr, handed, written,
                   wrCh, done, werr, clast, received, compressed>>
    /\ PipeFrame

PipeNext ==
    \/ ProducerOpen
    \/ ProducerOpenFails
    \/ ProducerReadChunk
    \/ ProducerReadEOF
    \/ ProducerReadFails
    \/ ProducerCloseWithError
    \/ ProducerDeferredClose
    \/ PipeTransfer
    \/ PipeAck
    \/ ConsumerCreate
    \/ ConsumerCreateFails
    \/ ConsumerReadClosed
    \/ ConsumerCompress
    \/ ConsumerCompressFails

\* ------------------------------------------------------- limitReaderPattern
\* Largest n of io.LimitReader(reader, n) the model enumerates (100 in the
\* pattern, with a text of 14,000,000 bytes).
MaxLimit == 3
\* Reads of `limited` the model follows, the ones after end-of-data included.
MaxReads == 5

\* A LimitedReader that passes p on as it came, without `p = p[0:l.N]`.
LimitedLenUnclamped(n, N) == n

\* LimitedReader.Read: `if int64(len(p)) > l.N { p = p[0:l.N] }`, len(p) = n
LimitedLen(n, N) == IF n > N THEN N ELSE n

\* strings.Reader.Read(p), len(p) = n, at index pos of s:
\* (0, io.EOF) at the end, else the next min(n, rest) bytes and nil.
StringsRead(s, pos, n) ==
    IF pos >= Len(s)
      THEN [bytes |-> <<>>, err |-> EOF]
      ELSE [bytes |-> SubSeq(s, pos + 1, pos + Min(n, Len(s) - pos)), err |-> Nil]

\* LimitedReader.Read(p), len(p) = n: (0, io.EOF) once N <= 0, else the inner
\* read of the clamped p.
LimitedRead(s, pos, N, n) ==
    IF N <= 0
      THEN [bytes |-> <<>>, err |-> EOF]
      ELSE StringsRead(s, pos, LimitedLen(n, N))

LimIdle ==
    /\ lrData = <<>>
    /\ lrLimit = 0
    /\ lrN = 0
    /\ lrPos = 0
    /\ lrLog = <<>>
    /\ lrAll = <<>>
    /\ lrReturned = FALSE
    /\ lrBuff = <<"idle">>

\* reader := strings.NewReader(longText); limited := io.LimitReader(reader, n)
LimInit ==
    /\ lrData \in SeqsUpTo(MaxFileLen)
    /\ lrLimit \in 0..MaxLimit
    /\ lrN = lrLimit
    /\ lrPos = 0
    /\ lrLog = <<>>
    /\ lrAll = <<>>
    /\ lrReturned = FALSE
    /\ lrBuff = <<>>

\* One limited.Read(p) with len(p) = n >= 1. io.ReadAll makes these reads,
\* appending to b, until the first error and returns b then; the reads after
\* that are reads of `limited` past its end-of-data.
LimRead ==
    /\ Len(lrLog) < MaxReads
    /\ \E n \in 1..CopyBuf :
         LET r == LimitedRead(lrData, lrPos, lrN, n) IN
         /\ lrLog' = Append(lrLog, r)
         /\ lrPos' = lrPos + Len(r.bytes)
         /\ lrN' = lrN - Len(r.bytes)
         /\ lrAll' = IF lrReturned THEN lrAll ELSE lrAll \o r.bytes
         /\ lrReturned' = (lrReturned \/ r.err # Nil)
    /\ UNCHANGED <<lrData, lrLimit, lrBuff>>
    /\ LimFrame

\* buff := make([]byte, 100); reader.Read(buff): a read of the inner reader
\* itself, after io.ReadAll returned (the buffer has the length of the limit
\* in the pattern).
LimDirectRead ==
    /\ lrReturned
    /\ lrBuff = <<>>
    /\ LET r == StringsRead(lrData, lrPos, lrLimit) IN
         /\ lrBuff' = <<r>>
         /\ lrPos' = lrPos + Len(r.bytes)
    /\ UNCHANGED <<lrData, lrLimit, lrN, lrLog, lrAll, lrReturned>>
    /\ LimFrame

LimNext ==
    \/ LimRead
    \/ LimDirectRead

\* ------------------------------------------------------- teeReaderPattern
WriteErr == "write: no space left on device"
InvalidErr == "invalid argument"

\* md5 is opaque here: the checksum stands for the byte sequence hashed.
Checksum(s) == <<"md5", s>>

\* A tee that mirrors one byte less than it returns.
TeeReadShortMirror(s, pos, n) ==
    LET r == StringsRead(s, pos, n) IN
    [bytes |-> r.bytes, err |-> r.err,
     mirror |-> SubSeq(r.bytes, 1, Len(r.bytes) - 1)]

\* teeReader.Read(p), len(p) = n: `n, err = t.r.Read(p)`, then, if n > 0,
\* `t.w.Write(p[:n])`. The writer is the md5 hash, whose Write takes all of
\* p[:n] and returns no error, so the read returns what the inner read did.
TeeRead(s, pos, n) ==
    LET r == StringsRead(s, pos, n) IN
    [bytes |-> r.bytes, err |-> r.err,
     mirror |-> IF Len(r.bytes) > 0 THEN r.bytes ELSE <<>>]

TeeIdle ==
    /\ tData = <<>>
    /\ tPos = 0
    /\ tpc = "idle"
    /\ tChunk = <<>>
    /\ tLast = Nil
    /\ tReturned = <<>>
    /\ tMirror = <<>>
    /\ tFile = <<>>
    /\ tWritten = 0
    /\ tErr = Nil
    /\ tReport = <<>>

\* reader := strings.NewReader(data); hash := md5.New();
\* teeReader := io.TeeReader(reader, hash)
TeeInit ==
    /\ tData \in SeqsUpTo(MaxFileLen)
    /\ tPos = 0
    /\ tpc = "create"
    /\ tChunk = <<>>
    /\ tLast = Nil
    /\ tReturned = <<>>
    /\ tMirror = <<>>
    /\ tFile = <<>>
    /\ tWritten = 0
    /\ tErr = Nil
    /\ tReport = <<>>

\* file, _ := os.Create("tee_reader.txt") succeeds
TeeCreate ==
    /\ tpc = "create"
    /\ tpc' = "read"
    /\ UNCHANGED <<tData, tPos, tChunk, tLast, tReturned, tMirror, tFile,
                   tWritten, tErr, tReport>>
    /\ TeeFrame

\* os.Create fails and the error is dropped: file is nil, and io.Copy(file,
\* teeReader) returns the error of the invalid file before it reads.
TeeCreateFails ==
    /\ tpc = "create"
    /\ tErr' = InvalidErr
    /\ tpc' = "report"
    /\ UNCHANGED <<tData, tPos, tChunk, tLast, tReturned, tMirror, tFile,
                   tWritten, tReport>>
    /\ TeeFrame

\* io.Copy: nr, er := teeReader.Read(buf). With nr > 0 the write follows;
\* io.EOF ends the copy with err = nil.
TeeCopyRead ==
    /\ tpc = "read"
    /\ LET r == TeeRead(tData, tPos, CopyBuf) IN
         /\ tPos' = tPos + Len(r.bytes)
         /\ tChunk' = r.bytes
         /\ tLast' = r.err
         /\ tReturned' = tReturned \o r.bytes
         /\ tMirror' = tMirror \o r.mirror
         /\ tpc' = IF Len(r.bytes) > 0 THEN "write" ELSE "report"
    /\ UNCHANGED <<tData, tFile, tWritten, tErr, tReport>>
    /\ TeeFrame

\* io.Copy: nw, ew := file.Write(buf[0:nr]) takes the chunk
TeeCopyWrite ==
    /\ tpc = "write"
    /\ tFile' = tFile \o tChunk
    /\ tWritten' = tWritten + Len(tChunk)
    /\ tChunk' = <<>>
    /\ tpc' = "read"
    /\ UNCHANGED <<tData, tPos, tLast, tReturned, tMirror, tErr, tReport>>
    /\ TeeFrame

\* io.Copy: file.Write takes nw < nr bytes and fails; the copy ends with ew
TeeCopyWriteFails ==
    /\ tpc = "write"
    /\ \E nw \in 0..(Len(tChunk) - 1) :
         /\ tFile' = tFile \o Take(tChunk, nw)
         /\ tWritten' = tWritten + nw
    /\ tErr' = WriteErr
    /\ tChunk' = <<>>
    /\ tpc' = "report"
    /\ UNCHANGED <<tData, tPos, tLast, tReturned, tMirror, tReport>>
    /\ TeeFrame

\* checksum := hash.Sum(nil); both Printf
TeeReport ==
    /\ tpc = "report"
    /\ tReport' = <<[checksum |-> Checksum(tMirror), written |-> tWritten]>>
    /\ tpc' = "done"
    /\ UNCHANGED <<tData, tPos, tChunk, tLast, tReturned, tMirror, tFile,
                   tWritten, tErr>>
    /\ TeeFrame

TeeNext ==
    \/ TeeCreate
    \/ TeeCreateFails
    \/ TeeCopyRead
    \/ TeeCopyWrite
    \/ TeeCopyWriteFails
    \/ TeeReport

\* ------------------------------------------------------- ./uploads
\* An entry of the directory: no file of that name, or a file and its bytes.
NoFile == [exists |-> FALSE, data |-> <<>>]
File(bytes) == [exists |-> TRUE, data |-> bytes]

\* Names a file of ./uploads can have in the model.
DiskNames == {"a.bin", "zz.bin"}

DiskIdle == disk = [f \in DiskNames |-> NoFile]

\* ------------------------------------------------------- rangeDownloadHandler
\* Largest number written in a Range header.
MaxPos == 4

\* A file whose byte at offset i is i + 1, so that a byte tells its offset.
Ramp(n) == [i \in 1..n |-> i]

\* Values of the `file` parameter: "", "a.bin", "../a.bin", "zz.bin".
FileParams == {<<>>, <<"a.bin">>, <<"..", "a.bin">>, <<"zz.bin">>}

\* filepath.Base of a non-empty parameter: its last path segment.
Base(param) == param[Len(param)]

\* os.Open("./uploads/" + safeFilename) returns no error: the file is there.
OpenSucceedsAlways(d, name) == TRUE

OpenSucceeds(d, name) == d[name].exists

\* The text on either side of the "-" of a range: empty, a decimal number,
\* or something strconv.ParseInt rejects.
Empty == [k |-> "empty", v |-> 0]
Bad == [k |-> "bad", v |-> 0]
Num(n) == [k |-> "num", v |-> n]
Texts == {Empty, Bad} \cup {Num(n) : n \in 0..MaxPos}

\* One comma-separated element of the header: blank, without "-", or
\* first "-" last.
Blank == [kind |-> "blank", first |-> Empty, last |-> Empty]
NoDash == [kind |-> "nodash", first |-> Bad, last |-> Empty]
Range(a, b) == [kind |-> "range", first |-> a, last |-> b]
Elements == {Blank, NoDash} \cup {Range(a, b) : a \in Texts, b \in Texts}

\* Range headers: none, one element under "bytes=" or another unit, and a
\* few of two elements.
NoHeader == [unit |-> "", elems |-> <<>>]
TwoElements ==
    {<<Range(Num(0), Num(0)), e>> :
        e \in {Range(Num(1), Empty), Range(Num(MaxPos), Empty),
               Range(Empty, Num(1)), Blank, NoDash}}
    \cup {<<Range(Num(MaxPos), Empty), Range(Num(MaxPos), Num(MaxPos))>>,
          <<Range(Num(0), Empty), Range(Num(0), Empty)>>}
RangeHeaders ==
    {NoHeader}
    \cup {[unit |-> u, elems |-> <<e>>] : u \in {"bytes", "items"}, e \in Elements}
    \cup {[unit |-> "bytes", elems |-> es] : es \in TwoElements}

InvalidRange == "invalid range"
NoOverlap == "invalid range: failed to overlap"

\* A parser that treats a range starting exactly at the size as inside.
StartsBeyondOffByOne(i, size) == i > size

\* parseRange: `if i >= size`, the range begins after the content
StartsBeyond(i, size) == i >= size

\* A parser that leaves the end where the header put it.
ClampEndNot(i, size) == i

\* parseRange: `if i >= size { i = size - 1 }`
ClampEnd(i, size) == IF i >= size THEN size - 1 ELSE i

\* parseRange, the body of its loop for one element e, from the result acc
\* of the elements before it.
ParseElement(acc, e, size) ==
    IF acc.err # Nil \/ e.kind = "blank" THEN acc
    ELSE IF e.kind = "nodash" THEN [acc EXCEPT !.err = InvalidRange]
    ELSE IF e.first.k = "empty" THEN
        \* "-N": the last N bytes
        IF e.last.k # "num" THEN [acc EXCEPT !.err = InvalidRange]
        ELSE LET i == Min(e.last.v, size) IN
             [acc EXCEPT !.ranges = Append(@, [start |-> size - i, length |-> i])]
    ELSE IF e.first.k # "num" THEN [acc EXCEPT !.err = InvalidRange]
    ELSE IF StartsBeyond(e.first.v, size) THEN [acc EXCEPT !.noOverlap = TRUE]
    ELSE IF e.last.k = "empty" THEN
        [acc EXCEPT !.ranges =
            Append(@, [start |-> e.first.v, length |-> size - e.first.v])]
    ELSE IF e.last.k # "num" \/ e.first.v > e.last.v THEN
        [acc EXCEPT !.err = InvalidRange]
    ELSE
        [acc EXCEPT !.ranges =
            Append(@, [start |-> e.first.v,
                       length |-> ClampEnd(e.last.v, size) - e.first.v + 1])]

RECURSIVE ParseElements(_, _, _)
ParseElements(elems, j, size) ==
    IF j = 0
      THEN [err |-> Nil, ranges |-> <<>>, noOverlap |-> FALSE]
      ELSE ParseElement(ParseElements(elems, j - 1, size), elems[j], size)

\* A parser that takes a header it cannot parse for no header.
ParseRangeLenient(h, size) ==
    IF h = NoHeader \/ h.unit # "bytes" THEN [err |-> Nil, ranges |-> <<>>]
    ELSE LET r == ParseElements(h.elems, Len(h.elems), size) IN
         IF r.err # Nil THEN [err |-> Nil, ranges |-> <<>>]
         ELSE IF r.noOverlap /\ r.ranges = <<>>
              THEN [err |-> NoOverlap, ranges |-> <<>>]
         ELSE [err |-> Nil, ranges |-> r.ranges]

\* parseRange(s, size) of net/http, which http.ServeContent calls with the
\* Range header.
ParseRange(h, size) ==
    IF h = NoHeader THEN [err |-> Nil, ranges |-> <<>>]
    ELSE IF h.unit # "bytes" THEN [err |-> InvalidRange, ranges |-> <<>>]
    ELSE LET r == ParseElements(h.elems, Len(h.elems), size) IN
         IF r.err # Nil THEN [err |-> r.err, ranges |-> <<>>]
         ELSE IF r.noOverlap /\ r.ranges = <<>>
              THEN [err |-> NoOverlap, ranges |-> <<>>]
         ELSE [err |-> Nil, ranges |-> r.ranges]

\* A sum that counts the first range only.
SumRangesSizeFirst(ranges) == IF ranges = <<>> THEN 0 ELSE Head(ranges).length

\* sumRangesSize of net/http
RECURSIVE SumRangesSize(_)
SumRangesSize(ranges) ==
    IF ranges = <<>> THEN 0 ELSE Head(ranges).length + SumRangesSize(Tail(ranges))

\* http.ServeContent up to w.WriteHeader(code), for a GET without conditional
\* request headers: the status, the Content-Range and Content-Length it
\* sets, and the regions of the content it goes on to send.
\*   - errNoOverlap: 416 with "bytes */size", but a plain 200 for an empty
\*     content; any other parse error: 416 without Content-Range;
\*   - ranges larger in sum than the content are ignored;
\*   - one range: 206 and Content-Range; several: 206, multipart/byteranges
\*     (its Content-Length counts the part headers too: marked mime).
ServeContent(h, size) ==
    LET p == ParseRange(h, size)
        whole == [status |-> 200, crange |-> <<>>, clen |-> <<[mime |-> FALSE, n |-> size]>>,
                  segs |-> <<[start |-> 0, length |-> size]>>]
    IN
    IF p.err = NoOverlap /\ size = 0 THEN whole
    ELSE IF p.err = NoOverlap THEN
        [status |-> 416, crange |-> <<[star |-> TRUE, total |-> size]>>,
         clen |-> <<>>, segs |-> <<>>]
    ELSE IF p.err # Nil THEN
        [status |-> 416, crange |-> <<>>, clen |-> <<>>, segs |-> <<>>]
    ELSE IF SumRangesSize(p.ranges) > size THEN whole
    ELSE IF Len(p.ranges) = 1 THEN
        LET ra == p.ranges[1] IN
        [status |-> 206,
         crange |-> <<[star |-> FALSE, start |-> ra.start,
                       end |-> ra.start + ra.length - 1, total |-> size]>>,
         clen |-> <<[mime |-> FALSE, n |-> ra.length]>>,
         segs |-> <<ra>>]
    ELSE IF Len(p.ranges) > 1 THEN
        [status |-> 206, crange |-> <<>>, clen |-> <<[mime |-> TRUE, n |-> SumRangesSize(p.ranges)]>>,
         segs |-> p.ranges]
    ELSE whole

DlIdle ==
    /\ dlParam = <<>>
    /\ dlRange = NoHeader
    /\ dpc = "idle"
    /\ dlName = ""
    /\ dlStatus = 0
    /\ dlDisp = <<>>
    /\ dlCRange = <<>>
    /\ dlCLen = <<>>
    /\ dlSegs = <<>>
    /\ dlBody = <<>>
    /\ dlErr = Nil

\* A GET /range-download request arrives; ./uploads holds a.bin or not.
DlInit ==
    /\ \E n \in 0..MaxFileLen, present \in BOOLEAN :
         disk = [f \in DiskNames |->
                   IF f = "a.bin" /\ present THEN File(Ramp(n)) ELSE NoFile]
    /\ dlParam \in FileParams
    /\ dlRange \in RangeHeaders
    /\ dpc = "start"
    /\ dlName = ""
    /\ dlStatus = 0
    /\ dlDisp = <<>>
    /\ dlCRange = <<>>
    /\ dlCLen = <<>>
    /\ dlSegs = <<>>
    /\ dlBody = <<>>
    /\ dlErr = Nil

\* filename == "": http.Error 400
DlNoName ==
    /\ dpc = "start"
    /\ dlParam = <<>>
    /\ dlStatus' = 400
    /\ dpc' = "done"
    /\ UNCHANGED <<dlParam, dlRange, dlName, dlDisp, dlCRange, dlCLen, dlSegs,
                   dlBody, dlErr>>
    /\ UNCHANGED diskVars
    /\ DlFrame

\* os.Open("./uploads/" + safeFilename) fails: http.Error 404
DlNotFound ==
    /\ dpc = "start"
    /\ dlParam # <<>>
    /\ ~OpenSucceeds(disk, Base(dlParam))
    /\ dlName' = Base(dlParam)
    /\ dlStatus' = 404
    /\ dpc' = "done"
    /\ UNCHANGED <<dlParam, dlRange, dlDisp, dlCRange, dlCLen, dlSegs, dlBody,
                   dlErr>>
    /\ UNCHANGED diskVars
    /\ DlFrame

\* safeFilename := filepath.Base(filename); os.Open succeeds
DlOpen ==
    /\ dpc = "start"
    /\ dlParam # <<>>
    /\ OpenSucceeds(disk, Base(dlParam))
    /\ dlName' = Base(dlParam)
    /\ dpc' = "opened"
    /\ UNCHANGED <<dlParam, dlRange, dlStatus, dlDisp, dlCRange, dlCLen, dlSegs,
                   dlBody, dlErr>>
    /\ UNCHANGED diskVars
    /\ DlFrame

\* file.Stat() fails: http.Error 500
DlStatFails ==
    /\ dpc = "opened"
    /\ dlStatus' = 500
    /\ dpc' = "done"
    /\ UNCHANGED <<dlParam, dlRange, dlName, dlDisp, dlCRange, dlCLen, dlSegs,
                   dlBody, dlErr>>
    /\ UNCHANGED diskVars
    /\ DlFrame

\* Content-Disposition is set from safeFilename; http.ServeContent finds the
\* size, reads the Range header and writes the header of the response.
DlServe ==
    /\ dpc = "opened"
    /\ LET r == ServeContent(dlRange, Len(disk[dlName].data)) IN
         /\ dlStatus' = r.status
         /\ dlCRange' = r.crange
         /\ dlCLen' = r.clen
         /\ dlSegs' = r.segs
         /\ dpc' = IF r.status = 416 THEN "done" ELSE "send"
    /\ dlDisp' = <<dlName>>
    /\ UNCHANGED <<dlParam, dlRange, dlName, dlBody, dlErr>>
    /\ UNCHANGED diskVars
    /\ DlFrame

\* io.CopyN(w, sendContent, sendSize): the next chunk of the region being
\* sent is read at its offset and written to the client.
DlSendChunk ==
    /\ dpc = "send"
    /\ dlSegs # <<>>
    /\ Head(dlSegs).length > 0
    /\ LET seg == Head(dlSegs)
           n == Min(CopyBuf, seg.length)
       IN
         /\ dlBody' = dlBody \o SubSeq(disk[dlName].data, seg.start + 1, seg.start + n)
         /\ dlSegs' = IF seg.length = n
                        THEN Tail(dlSegs)
                        ELSE <<[start |-> seg.start + n, length |-> seg.length - n]>>
                             \o Tail(dlSegs)
    /\ UNCHANGED <<dlParam, dlRange, dpc, dlName, dlStatus, dlDisp, dlCRange,
                   dlCLen, dlErr>>
    /\ UNCHANGED diskVars
    /\ DlFrame

\* a region of no bytes (an empty content, "bytes=-0") is done at once
DlSendNothing ==
    /\ dpc = "send"
    /\ dlSegs # <<>>
    /\ Head(dlSegs).length = 0
    /\ dlSegs' = Tail(dlSegs)
    /\ UNCHANGED <<dlParam, dlRange, dpc, dlName, dlStatus, dlDisp, dlCRange,
                   dlCLen, dlBody, dlErr>>
    /\ UNCHANGED diskVars
    /\ DlFrame

\* the write to the client fails (the connection is gone): the copy stops
DlSendFails ==
    /\ dpc = "send"
    /\ dlSegs # <<>>
    /\ Head(dlSegs).length > 0
    /\ dlErr' = WriteErr
    /\ dpc' = "done"
    /\ UNCHANGED <<dlParam, dlRange, dlName, dlStatus, dlDisp, dlCRange, dlCLen,
                   dlSegs, dlBody>>
    /\ UNCHANGED diskVars
    /\ DlFrame

\* everything was sent; the handler returns
DlSendDone ==
    /\ dpc = "send"
    /\ dlSegs = <<>>
    /\ dpc' = "done"
    /\ UNCHANGED <<dlParam, dlRange, dlName, dlStatus, dlDisp, dlCRange, dlCLen,
                   dlSegs, dlBody, dlErr>>
    /\ UNCHANGED diskVars
    /\ DlFrame

DlNext ==
    \/ DlNoName
    \/ DlNotFound
    \/ DlOpen
    \/ DlStatFails
    \/ DlServe
    \/ DlSendChunk
    \/ DlSendNothing
    \/ DlSendFails
    \/ DlSendDone

\* ------------------------------------------------------- uploadHandler
\* The size limit the lesson asks of an upload (10 MB there, scaled); the
\* handler itself has none.
MaxUploadBytes == 2

\* filename parameters of the part "file": "a.bin", "../a.bin", "zz.bin",
\* "sub/zz.bin", "..". (A part without filename is no file part: "nofile".)
UploadNames == (FileParams \ {<<>>}) \cup {<<"sub", "zz.bin">>, <<"..">>}

\* header.Filename as r.FormFile gives it: mime/multipart passes the
\* filename parameter through filepath.Base (Part.FileName).
PartFileName(raw) == Base(raw)

\* A handler that joins the root and the filename as the client wrote it.
UploadPathRaw(raw) == <<"uploads">> \o raw

\* "uploads/" + header.Filename, in path segments
UploadPath(raw) == <<"uploads", PartFileName(raw)>>

\* The file a path names once the system has followed its ".." segments;
\* <<>> is the working directory.
RECURSIVE ResolveFrom(_, _)
ResolveFrom(acc, path) ==
    IF path = <<>> THEN acc
    ELSE IF Head(path) = ".."
      THEN ResolveFrom(IF acc = <<>> THEN <<>> ELSE SubSeq(acc, 1, Len(acc) - 1),
                       Tail(path))
      ELSE ResolveFrom(Append(acc, Head(path)), Tail(path))
Resolve(path) == ResolveFrom(<<>>, path)

\* The resolved path is a file directly in ./uploads.
InRoot(dest) == Len(dest) = 2 /\ dest[1] = "uploads" /\ dest[2] \in DiskNames

\* os.Create can make the file: it lies in ./uploads or in the working
\* directory. The directories themselves (EISDIR) and files of a directory
\* that does not exist (ENOENT) cannot be created.
Creatable(dest) == InRoot(dest) \/ (Len(dest) = 1 /\ dest[1] \in DiskNames)

UpIdle ==
    /\ upMethod = ""
    /\ upForm = ""
    /\ upFileName = ""
    /\ upBody = <<>>
    /\ upc = "idle"
    /\ upPos = 0
    /\ upWritten = 0
    /\ upCreated = FALSE
    /\ upStatus = 0
    /\ upReply = <<>>
    /\ upRawName = <<>>
    /\ upDest = <<>>
    /\ upOutside = {}
    /\ upDisk0 = [f \in DiskNames |-> NoFile]
    /\ upStored = <<>>

\* A request to /upload arrives; ./uploads is empty or holds an a.bin of one
\* byte.
UpInit ==
    /\ \E present \in BOOLEAN :
         disk = [f \in DiskNames |->
                   IF f = "a.bin" /\ present THEN File(Ramp(1)) ELSE NoFile]
    /\ upMethod \in {"POST", "GET"}
    /\ upForm \in {"bad", "nofile", "ok"}
    /\ upRawName \in UploadNames
    /\ upFileName = PartFileName(upRawName)
    /\ upBody \in SeqsUpTo(MaxFileLen)
    /\ upc = "start"
    /\ upPos = 0
    /\ upWritten = 0
    /\ upCreated = FALSE
    /\ upStatus = 0
    /\ upReply = <<>>
    /\ upDest = <<>>
    /\ upOutside = {}
    /\ upDisk0 = disk
    /\ upStored = <<>>

\* r.Method != "POST": http.Error 405
UpNotPost ==
    /\ upc = "start"
    /\ upMethod # "POST"
    /\ upStatus' = 405
    /\ upc' = "done"
    /\ UNCHANGED <<upMethod, upForm, upFileName, upBody, upPos, upWritten,
                   upCreated, upReply>>
    /\ UNCHANGED diskVars
    /\ UNCHANGED <<upRawName, upDisk0, upDest, upOutside, upStored>>
    /\ UpFrame

\* r.ParseMultipartForm(10 << 20) fails: http.Error 400. (10 << 20 bounds
\* what is kept in memory; a longer part is kept in a temporary file.)
UpParseFails ==
    /\ upc = "start"
    /\ upMethod = "POST"
    /\ upForm = "bad"
    /\ upStatus' = 400
    /\ upc' = "done"
    /\ UNCHANGED <<upMethod, upForm, upFileName, upBody, upPos, upWritten,
                   upCreated, upReply>>
    /\ UNCHANGED diskVars
    /\ UNCHANGED <<upRawName, upDisk0, upDest, upOutside, upStored>>
    /\ UpFrame

\* r.FormFile("file") fails: http.Error 400
UpNoFilePart ==
    /\ upc = "start"
    /\ upMethod = "POST"
    /\ upForm = "nofile"
    /\ upStatus' = 400
    /\ upc' = "done"
    /\ UNCHANGED <<upMethod, upForm, upFileName, upBody, upPos, upWritten,
                   upCreated, upReply>>
    /\ UNCHANGED diskVars
    /\ UNCHANGED <<upRawName, upDisk0, upDest, upOutside, upStored>>
    /\ UpFrame

\* r.ParseMultipartForm and r.FormFile("file") both return no error: the
\* body is a multipart form and holds the part "file".
PartPresentAlways(form) == TRUE

PartPresent(form) == form = "ok"

\* dst, err := os.Create("uploads/" + header.Filename) creates the file, or
\* truncates the one there is, where the path resolves to
UpCreate ==
    /\ upc = "start"
    /\ upMethod = "POST"
    /\ PartPresent(upForm)
    /\ LET dest == Resolve(UploadPath(upRawName)) IN
         /\ Creatable(dest)
         /\ upDest' = dest
         /\ IF InRoot(dest)
              THEN /\ disk' = [disk EXCEPT ![dest[2]] = File(<<>>)]
                   /\ UNCHANGED upOutside
              ELSE /\ upOutside' = upOutside \cup {dest}
                   /\ UNCHANGED disk
    /\ upCreated' = TRUE
    /\ upc' = "copy"
    /\ UNCHANGED <<upMethod, upForm, upFileName, upBody, upPos, upWritten,
                   upStatus, upReply>>
    /\ UNCHANGED <<upRawName, upDisk0, upStored>>
    /\ UpFrame

\* os.Create fails: http.Error 500
UpCreateFails ==
    /\ upc = "start"
    /\ upMethod = "POST"
    /\ PartPresent(upForm)
    /\ upStatus' = 500
    /\ upc' = "done"
    /\ UNCHANGED <<upMethod, upForm, upFileName, upBody, upPos, upWritten,
                   upCreated, upReply>>
    /\ UNCHANGED diskVars
    /\ UNCHANGED <<upRawName, upDisk0, upDest, upOutside, upStored>>
    /\ UpFrame

\* io.Copy(dst, file): a chunk of the part is read and written to dst
UpCopyChunk ==
    /\ upc = "copy"
    /\ upPos < Len(upBody)
    /\ LET n == Min(CopyBuf, Len(upBody) - upPos)
           chunk == SubSeq(upBody, upPos + 1, upPos + n)
       IN
         /\ disk' = IF InRoot(upDest)
                      THEN [disk EXCEPT ![upDest[2]] = File(@.data \o chunk)]
                      ELSE disk
         /\ upPos' = upPos + n
         /\ upWritten' = upWritten + n
    /\ UNCHANGED <<upMethod, upForm, upFileName, upBody, upc, upCreated,
                   upStatus, upReply>>
    /\ UNCHANGED <<upRawName, upDisk0, upDest, upOutside, upStored>>
    /\ UpFrame

\* io.Copy(dst, file): dst.Write takes nw < nr bytes of the chunk and fails;
\* http.Error 500, return (the deferred dst.Close() runs)
UpCopyWriteFails ==
    /\ upc = "copy"
    /\ upPos < Len(upBody)
    /\ LET n == Min(CopyBuf, Len(upBody) - upPos) IN
       \E nw \in 0..(n - 1) :
         /\ disk' = IF InRoot(upDest)
                      THEN [disk EXCEPT ![upDest[2]] =
                              File(@.data \o SubSeq(upBody, upPos + 1, upPos + nw))]
                      ELSE disk
         /\ upPos' = upPos + n
         /\ upWritten' = upWritten + nw
    /\ upStatus' = 500
    /\ upc' = "done"
    /\ UNCHANGED <<upMethod, upForm, upFileName, upBody, upCreated, upReply>>
    /\ UNCHANGED <<upRawName, upDisk0, upDest, upOutside, upStored>>
    /\ UpFrame

\* io.Copy(dst, file): file.Read fails; http.Error 500, return
UpCopyReadFails ==
    /\ upc = "copy"
    /\ upPos < Len(upBody)
    /\ upStatus' = 500
    /\ upc' = "done"
    /\ UNCHANGED <<upMethod, upForm, upFileName, upBody, upPos, upWritten,
                   upCreated, upReply>>
    /\ UNCHANGED diskVars
    /\ UNCHANGED <<upRawName, upDisk0, upDest, upOutside, upStored>>
    /\ UpFrame

\* io.Copy returns at the end of the part; the success line is written
\* (status 200) with the count, the deferred dst.Close() runs
UpSuccess ==
    /\ upc = "copy"
    /\ upPos = Len(upBody)
    /\ upStatus' = 200
    /\ upReply' = <<upWritten>>
    /\ upc' = "done"
    /\ UNCHANGED <<upMethod, upForm, upFileName, upBody, upPos, upWritten,
                   upCreated>>
    /\ UNCHANGED diskVars
    /\ UNCHANGED <<upRawName, upDisk0, upDest, upOutside, upStored>>
    /\ UpFrame

\* The kernel writes the cached bytes of the destination back to the storage
\* device, at a time of its choosing: the handler calls neither dst.Sync()
\* nor, before the response, dst.Close().
UpWriteback ==
    /\ upc \in {"copy", "done"}
    /\ InRoot(upDest)
    /\ upStored # disk[upDest[2]].data
    /\ upStored' = disk[upDest[2]].data
    /\ UNCHANGED <<upMethod, upForm, upFileName, upBody, upc, upPos, upWritten,
                   upCreated, upStatus, upReply>>
    /\ UNCHANGED diskVars
    /\ UNCHANGED <<upRawName, upDisk0, upDest, upOutside>>
    /\ UpFrame

UpNext ==
    \/ UpNotPost
    \/ UpParseFails
    \/ UpNoFilePart
    \/ UpCreate
    \/ UpCreateFails
    \/ UpCopyChunk
    \/ UpCopyWriteFails
    \/ UpCopyReadFails
    \/ UpSuccess
    \/ UpWriteback

\* ------------------------------------------- step11: the reader adapters
\* Ticks of the clock in one second.
TicksPerSec == 2
\* Last tick of the clock.
MaxTime == 4
\* Largest bytesPerSec given to NewThrottledReader.
MaxRate == 2

\* The result of a Read: n, the bytes put in p[:n], err. NoRead: no call yet.
NoRead == [n |-> 0, bytes |-> <<>>, err |-> "none"]

\* file.Read(p) of the *os.File at offset off, len(p) = n; fault: the read
\* system call fails. An empty p reads nothing, the end of the file is
\* (0, io.EOF).
FileRead(data, off, n, fault) ==
    IF n = 0 THEN [n |-> 0, bytes |-> <<>>, err |-> Nil]
    ELSE IF fault THEN [n |-> 0, bytes |-> <<>>, err |-> ReadErr]
    ELSE IF off >= Len(data) THEN [n |-> 0, bytes |-> <<>>, err |-> EOF]
    ELSE LET m == Min(n, Len(data) - off) IN
         [n |-> m, bytes |-> SubSeq(data, off + 1, off + m), err |-> Nil]

\* A counter that keeps only the latest count.
ProgressAddLatest(current, n) == n

\* ProgressReader.Read: pr.current += int64(n)
ProgressAdd(current, n) == current + n

\* A reader that reports only the reads that returned no error.
ProgressCallbackOnNilErr(hasCb, inner) == hasCb /\ inner.err = Nil

\* ProgressReader.Read: `if pr.callback != nil`, whatever n and err are
ProgressCallback(hasCb, inner) == hasCb

\* ProgressReader.Read(p), given what pr.reader.Read(p) returned
ProgressRead(inner, current, total, hasCb) ==
    [ret |-> inner,
     current |-> ProgressAdd(current, inner.n),
     arg |-> IF ProgressCallback(hasCb, inner)
               THEN <<[current |-> ProgressAdd(current, inner.n), total |-> total]>>
               ELSE <<>>]

\* ThrottledReader.Read: int64(float64(tr.bytesPerSec) * elapsed.Seconds())
AllowedBytes(bps, elapsed) == (bps * elapsed) \div TicksPerSec

\* A reader that hands the caller's whole buffer to the inner reader.
ThrottleLenUncapped(allowed, len) == len

\* ThrottledReader.Read: `if allowedBytes < int64(len(p)) { p = p[:allowedBytes] }`
ThrottleLen(allowed, len) == IF allowed < len THEN allowed ELSE len

ChIdle ==
    /\ chData = <<>>
    /\ chOff = 0
    /\ now = 0
    /\ prTotal = 0
    /\ prCurrent = 0
    /\ prHasCb = FALSE
    /\ prReads = 0
    /\ prFaults = 0
    /\ prCalls = 0
    /\ prArg = <<>>
    /\ prInner = NoRead
    /\ prRet = NoRead
    /\ prSeen = <<>>
    /\ trBps = 0
    /\ trLastRead = 0
    /\ trReads = 0
    /\ trLen = 0
    /\ trAllowed = 0
    /\ trAsked = <<>>
    /\ trSlept = FALSE
    /\ trRet = NoRead
    /\ trHadEOF = FALSE
    /\ prHadEOF = FALSE
    /\ trFirst = -1
    /\ trIdle = FALSE
    /\ trOutAtCb = 0

\* main of step11: os.Open, file.Stat, NewProgressReader(file, size,
\* callback), NewThrottledReader(progressReader, rate)
ChInit ==
    /\ chData \in {Ramp(n) : n \in 0..MaxFileLen}
    /\ chOff = 0
    /\ now = 0
    /\ prTotal = Len(chData)
    /\ prCurrent = 0
    /\ prHasCb \in BOOLEAN
    /\ prReads = 0
    /\ prFaults = 0
    /\ prCalls = 0
    /\ prArg = <<>>
    /\ prInner = NoRead
    /\ prRet = NoRead
    /\ prSeen = <<>>
    /\ trBps \in 1..MaxRate
    /\ trLastRead = 0
    /\ trReads = 0
    /\ trLen = 0
    /\ trAllowed = 0
    /\ trAsked = <<>>
    /\ trSlept = FALSE
    /\ trRet = NoRead
    /\ trHadEOF = FALSE
    /\ prHadEOF = FALSE
    /\ trFirst = -1
    /\ trIdle = FALSE
    /\ trOutAtCb = 0

\* Time passes between two calls.
ChTick ==
    /\ now < MaxTime
    /\ now' = now + 1
    /\ UNCHANGED <<chData, chOff, prTotal, prCurrent, prHasCb, prReads,
                   prFaults, prCalls, prArg, prInner, prRet, prSeen, trBps,
                   trLastRead, trReads, trLen, trAllowed, trAsked, trSlept,
                   trRet, trHadEOF, prHadEOF, trFirst, trOutAtCb>>
    /\ trIdle' = (trIdle \/ trFirst >= 0)
    /\ ChFrame

\* throttledReader.Read(p) with len(p) = 0 after the cut to allowedBytes:
\* time.Sleep(10ms), return 0, nil. The sleep may or may not reach the next
\* tick; tr.lastRead stays.
ThrottledStall ==
    /\ trReads < MaxReads
    /\ \E len \in 0..CopyBuf, d \in 0..1 :
         LET allowed == AllowedBytes(trBps, now - trLastRead) IN
         /\ ThrottleLen(allowed, len) = 0
         /\ now + d <= MaxTime
         /\ now' = now + d
         /\ trLen' = len
         /\ trAllowed' = allowed
         /\ trIdle' = (trIdle \/ len < CopyBuf)
    /\ trReads' = trReads + 1
    /\ trAsked' = <<>>
    /\ trSlept' = TRUE
    /\ trRet' = [n |-> 0, bytes |-> <<>>, err |-> Nil]
    /\ trHadEOF' = (trHadEOF \/ trRet.err = EOF)
    /\ UNCHANGED <<chData, chOff, prTotal, prCurrent, prHasCb, prReads,
                   prFaults, prCalls, prArg, prInner, prRet, prSeen, trBps,
                   trLastRead, prHadEOF, trOutAtCb>>
    /\ trFirst' = (IF trFirst < 0 THEN now ELSE trFirst)
    /\ ChFrame

\* throttledReader.Read(p) with bytes allowed: tr.reader.Read(p[:allowed])
\* is progressReader.Read, which reads the file, adds n to current and
\* calls the callback; then tr.lastRead = time.Now() and n, err go back.
ThrottledRead ==
    /\ trReads < MaxReads
    /\ \E len \in 1..CopyBuf, fault \in BOOLEAN :
         LET allowed == AllowedBytes(trBps, now - trLastRead)
             asked == ThrottleLen(allowed, len)
             inner == FileRead(chData, chOff, asked, fault)
             pr == ProgressRead(inner, prCurrent, prTotal, prHasCb)
         IN
         /\ asked > 0
         /\ trLen' = len
         /\ trIdle' = (trIdle \/ len < CopyBuf)
         /\ trAllowed' = allowed
         /\ trAsked' = <<asked>>
         /\ chOff' = chOff + inner.n
         /\ prInner' = inner
         /\ prFaults' = prFaults + (IF inner.err = ReadErr THEN 1 ELSE 0)
         /\ prCurrent' = pr.current
         /\ prCalls' = prCalls + Len(pr.arg)
         /\ prArg' = IF pr.arg # <<>> THEN pr.arg ELSE prArg
         /\ trOutAtCb' = IF pr.arg # <<>> THEN Len(prSeen) ELSE trOutAtCb
         /\ prRet' = pr.ret
         /\ prSeen' = prSeen \o pr.ret.bytes
         /\ trRet' = pr.ret
    /\ prReads' = prReads + 1
    /\ trReads' = trReads + 1
    /\ trSlept' = FALSE
    /\ trLastRead' = now
    /\ trHadEOF' = (trHadEOF \/ trRet.err = EOF)
    /\ prHadEOF' = (prHadEOF \/ prRet.err = EOF)
    /\ trFirst' = (IF trFirst < 0 THEN now ELSE trFirst)
    /\ UNCHANGED <<chData, now, prTotal, prHasCb, trBps>>
    /\ ChFrame

ChNext ==
    \/ ChTick
    \/ ThrottledStall
    \/ ThrottledRead

\* ------------------------------------------------------- downloadHandler
\* net/http: a Write that would pass the declared Content-Length
ErrContentLength == "http: wrote more than the declared Content-Length"

PdIdle ==
    /\ pdParam = <<>>
    /\ pdc = "idle"
    /\ pdName = ""
    /\ pdStatus = 0
    /\ pdDisp = <<>>
    /\ pdCLen = <<>>
    /\ pdBody = <<>>
    /\ pdErr = Nil
    /\ pdLog = <<>>

\* A GET /download request arrives; ./uploads holds each of the names or
\* not.
PdInit ==
    /\ disk \in [DiskNames -> {NoFile} \cup {File(Ramp(n)) : n \in 0..MaxFileLen}]
    /\ pdParam \in FileParams
    /\ pdc = "start"
    /\ pdName = ""
    /\ pdStatus = 0
    /\ pdDisp = <<>>
    /\ pdCLen = <<>>
    /\ pdBody = <<>>
    /\ pdErr = Nil
    /\ pdLog = <<>>

\* filename == "": http.Error 400
PdNoName ==
    /\ pdc = "start"
    /\ pdParam = <<>>
    /\ pdStatus' = 400
    /\ pdc' = "done"
    /\ UNCHANGED <<pdParam, pdName, pdDisp, pdCLen, pdBody, pdErr, pdLog>>
    /\ UNCHANGED diskVars
    /\ PdFrame

\* safeFilename := filepath.Base(filename); os.Open fails: http.Error 404
PdNotFound ==
    /\ pdc = "start"
    /\ pdParam # <<>>
    /\ ~OpenSucceeds(disk, Base(pdParam))
    /\ pdName' = Base(pdParam)
    /\ pdStatus' = 404
    /\ pdc' = "done"
    /\ UNCHANGED <<pdParam, pdDisp, pdCLen, pdBody, pdErr, pdLog>>
    /\ UNCHANGED diskVars
    /\ PdFrame

\* safeFilename := filepath.Base(filename); os.Open("./uploads/" + safeFilename)
PdOpen ==
    /\ pdc = "start"
    /\ pdParam # <<>>
    /\ OpenSucceeds(disk, Base(pdParam))
    /\ pdName' = Base(pdParam)
    /\ pdc' = "opened"
    /\ UNCHANGED <<pdParam, pdStatus, pdDisp, pdCLen, pdBody, pdErr, pdLog>>
    /\ UNCHANGED diskVars
    /\ PdFrame

\* file.Stat() fails: http.Error 500
PdStatFails ==
    /\ pdc = "opened"
    /\ pdStatus' = 500
    /\ pdc' = "done"
    /\ UNCHANGED <<pdParam, pdName, pdDisp, pdCLen, pdBody, pdErr, pdLog>>
    /\ UNCHANGED diskVars
    /\ PdFrame

\* file.Stat(); Content-Disposition is set from filename, the parameter as
\* the caller gave it; Content-Type; Content-Length from fileInfo.Size()
PdHeaders ==
    /\ pdc = "opened"
    /\ pdDisp' = <<pdParam>>
    /\ pdCLen' = <<Len(disk[pdName].data)>>
    /\ pdc' = "copy"
    /\ UNCHANGED <<pdParam, pdName, pdStatus, pdBody, pdErr, pdLog>>
    /\ UNCHANGED diskVars
    /\ PdFrame

\* io.Copy(w, file): a chunk is read at the descriptor's offset from the
\* file as it is now and written; the first write sends the header with
\* status 200. The response takes no more than the declared Content-Length.
PdCopyChunk ==
    /\ pdc = "copy"
    /\ Len(pdBody) < Len(disk[pdName].data)
    /\ LET n == Min(CopyBuf, Len(disk[pdName].data) - Len(pdBody)) IN
         /\ Len(pdBody) + n <= pdCLen[1]
         /\ pdBody' = pdBody \o SubSeq(disk[pdName].data, Len(pdBody) + 1, Len(pdBody) + n)
    /\ pdStatus' = 200
    /\ UNCHANGED <<pdParam, pdc, pdName, pdDisp, pdCLen, pdErr, pdLog>>
    /\ UNCHANGED diskVars
    /\ PdFrame

\* io.Copy(w, file): the write to the client fails; log.Printf, return
PdCopyFails ==
    /\ pdc = "copy"
    /\ Len(pdBody) < Len(disk[pdName].data)
    /\ pdErr' = WriteErr
    /\ pdStatus' = 200
    /\ pdc' = "done"
    /\ UNCHANGED <<pdParam, pdName, pdDisp, pdCLen, pdBody, pdLog>>
    /\ UNCHANGED diskVars
    /\ PdFrame

\* io.Copy(w, file): the file has grown since Stat and the chunk would pass
\* the declared Content-Length; w.Write takes nothing and returns
\* http.ErrContentLength; log.Printf, return
PdCopyOver ==
    /\ pdc = "copy"
    /\ Len(pdBody) < Len(disk[pdName].data)
    /\ Len(pdBody) + Min(CopyBuf, Len(disk[pdName].data) - Len(pdBody)) > pdCLen[1]
    /\ pdErr' = ErrContentLength
    /\ pdStatus' = 200
    /\ pdc' = "done"
    /\ UNCHANGED <<pdParam, pdName, pdDisp, pdCLen, pdBody, pdLog>>
    /\ UNCHANGED diskVars
    /\ PdFrame

\* io.Copy returns at the end of the file (the offset is at or past the
\* file's present size); the completion is logged with filename and written;
\* the server sends status 200 if nothing was written
PdDone ==
    /\ pdc = "copy"
    /\ Len(pdBody) >= Len(disk[pdName].data)
    /\ pdStatus' = 200
    /\ pdLog' = <<[name |-> pdParam, written |-> Len(pdBody)]>>
    /\ pdc' = "done"
    /\ UNCHANGED <<pdParam, pdName, pdDisp, pdCLen, pdBody, pdErr>>
    /\ UNCHANGED diskVars
    /\ PdFrame

PdNext ==
    \/ PdNoName
    \/ PdNotFound
    \/ PdOpen
    \/ PdStatFails
    \/ PdHeaders
    \/ PdCopyChunk
    \/ PdCopyFails
    \/ PdDone

\* ------------------------------------------- customReaderWriterPattern
\* Characters of testData: a lower-case letter, an upper-case letter, the
\* line feed.
Chars == {"a", "B", "\n"}

\* Most dest.Write calls os.Stdout accepts before it starts to fail.
MaxStdout == 3

ShortWriteErr == "short write"

\* bytes.ToUpper, on the characters of the model
ToUpper(text) == [i \in 1..Len(text) |-> IF text[i] = "a" THEN "A" ELSE text[i]]

\* fmt.Sprintf("%d: ", l.lineNumber)
Prefix(lineNumber) == <<ToString(lineNumber) \o ": ">>

\* (*strings.Reader).Read(p), len(p) = n, at offset pos
SourceRead(text, pos, n) ==
    IF pos >= Len(text) THEN [n |-> 0, bytes |-> <<>>, err |-> EOF]
    ELSE LET m == Min(n, Len(text) - pos) IN
         [n |-> m, bytes |-> SubSeq(text, pos + 1, pos + m), err |-> Nil]

\* Read(p) of a source that returns its last bytes together with io.EOF,
\* as the io.Reader contract allows
EagerRead(text, pos, n) ==
    LET r == SourceRead(text, pos, n) IN
    IF pos + r.n >= Len(text) THEN [r EXCEPT !.err = EOF] ELSE r

\* u.source.Read(p)
InnerRead(eager, text, pos, n) ==
    IF eager THEN EagerRead(text, pos, n) ELSE SourceRead(text, pos, n)

\* UpperCaseReader.Read, given what u.source.Read(p) returned
UpperRead(inner) ==
    IF inner.err # Nil THEN inner
    ELSE [n |-> inner.n, bytes |-> ToUpper(inner.bytes), err |-> Nil]

\* l.dest.Write(b) on os.Stdout: st.stdout calls are still accepted (-1: all
\* of them); a call that fails writes nothing.
DestWrite(st, b) ==
    IF st.stdout = 0
      THEN [st EXCEPT !.n = 0, !.err = WriteErr, !.errs = @ + 1]
      ELSE [st EXCEPT !.n = Len(b), !.err = Nil, !.out = @ \o b,
                      !.stdout = IF @ > 0 THEN @ - 1 ELSE @]

\* LineNumberWriter.Write, `if b == '\n'`: the line up to p[i] is written,
\* the result of l.dest.Write is dropped
LineEndWrite(st, p, i) ==
    [DestWrite(st, SubSeq(p, st.written + 1, i)) EXCEPT
        !.written = i, !.newLine = TRUE]

\* LineNumberWriter.Write: the body of `for i, b := range p` for p[i]
LineByte(st, p, i) ==
    LET a == IF st.newLine
               THEN [DestWrite(st, Prefix(st.lineNumber)) EXCEPT
                        !.lineNumber = @ + 1, !.newLine = FALSE]
               ELSE st
    IN IF p[i] = "\n" THEN LineEndWrite(a, p, i) ELSE a

RECURSIVE LineLoop(_, _, _)
LineLoop(st, p, i) ==
    IF i = 0 THEN st ELSE LineByte(LineLoop(st, p, i - 1), p, i)

\* LineNumberWriter.Write(p) with the writer's fields and os.Stdout in st:
\* the loop, then `if written < len(p)` the rest of p (n, _ := ...), then
\* return written, nil.
LineWrite(st, p) ==
    LET a == LineLoop([st EXCEPT !.written = 0, !.errs = 0], p, Len(p))
        b == IF a.written < Len(p)
               THEN LET w == DestWrite(a, SubSeq(p, a.written + 1, Len(p))) IN
                    [w EXCEPT !.written = a.written + w.n]
               ELSE a
    IN [b EXCEPT !.n = b.written, !.err = Nil]

CuIdle ==
    /\ cuData = <<>>
    /\ cuPos = 0
    /\ cupc = "idle"
    /\ cuChunk = <<>>
    /\ cuInner = NoRead
    /\ cuReadRet = NoRead
    /\ cuStdout = 0
    /\ cuOut = <<>>
    /\ lwLineNumber = 0
    /\ lwNewLine = FALSE
    /\ lwRet = [n |-> 0, err |-> "none"]
    /\ lwDestErrs = 0
    /\ cuWritten = 0
    /\ cuErr = "none"
    /\ cuEager = FALSE
    /\ cuGot = <<>>
    /\ lwAccepted = 0

\* customReaderWriterPattern up to the call of io.Copy: the reader over
\* testData, the writer with lineNumber 1 and newLine true over os.Stdout.
\* The source is the strings.Reader of the pattern or, cuEager, a reader
\* that hands out its last bytes together with io.EOF.
CuInit ==
    /\ cuData \in UNION {[1..k -> Chars] : k \in 0..MaxFileLen}
    /\ cuPos = 0
    /\ cupc = "read"
    /\ cuChunk = <<>>
    /\ cuInner = NoRead
    /\ cuReadRet = NoRead
    /\ cuStdout \in -1..MaxStdout
    /\ cuOut = <<>>
    /\ lwLineNumber = 1
    /\ lwNewLine = TRUE
    /\ lwRet = [n |-> 0, err |-> "none"]
    /\ lwDestErrs = 0
    /\ cuWritten = 0
    /\ cuErr = "none"
    /\ cuEager \in BOOLEAN
    /\ cuGot = <<>>
    /\ lwAccepted = 0

\* io.Copy: nr, er := src.Read(buf) returns bytes
CuRead ==
    /\ cupc = "read"
    /\ LET inner == InnerRead(cuEager, cuData, cuPos, CopyBuf)
           r == UpperRead(inner)
       IN
         /\ r.n > 0
         /\ cuInner' = inner
         /\ cuReadRet' = r
         /\ cuPos' = cuPos + inner.n
         /\ cuChunk' = r.bytes
         /\ cuGot' = cuGot \o r.bytes
    /\ cupc' = "write"
    /\ UNCHANGED <<cuData, cuStdout, cuOut, lwLineNumber, lwNewLine, lwRet,
                   lwDestErrs, cuWritten, cuErr, cuEager, lwAccepted>>
    /\ CuFrame

\* io.Copy: src.Read returns 0, io.EOF; io.Copy returns written, nil
CuReadEOF ==
    /\ cupc = "read"
    /\ LET inner == InnerRead(cuEager, cuData, cuPos, CopyBuf)
           r == UpperRead(inner)
       IN
         /\ r.n = 0
         /\ cuInner' = inner
         /\ cuReadRet' = r
         /\ cuErr' = IF r.err = EOF THEN Nil ELSE r.err
    /\ cupc' = "done"
    /\ UNCHANGED <<cuData, cuPos, cuChunk, cuStdout, cuOut, lwLineNumber,
                   lwNewLine, lwRet, lwDestErrs, cuWritten, cuEager, cuGot,
                   lwAccepted>>
    /\ CuFrame

\* io.Copy: nw, ew := dst.Write(buf[:nr]) is LineNumberWriter.Write;
\* written += nw; ew ends the copy, so does nr != nw (io.ErrShortWrite),
\* and so does the er of the Read once its bytes are written
CuWrite ==
    /\ cupc = "write"
    /\ LET w == LineWrite([lineNumber |-> lwLineNumber, newLine |-> lwNewLine,
                           stdout |-> cuStdout, out |-> cuOut, written |-> 0,
                           errs |-> 0, n |-> 0, err |-> Nil],
                          cuChunk)
       IN
         /\ lwLineNumber' = w.lineNumber
         /\ lwNewLine' = w.newLine
         /\ cuStdout' = w.stdout
         /\ cuOut' = w.out
         /\ lwRet' = [n |-> w.n, err |-> w.err]
         /\ lwDestErrs' = w.errs
         /\ cuWritten' = cuWritten + w.n
         /\ lwAccepted' =
               Cardinality({k \in (Len(cuOut) + 1)..Len(w.out) : w.out[k] \in Chars})
         /\ IF w.err # Nil
              THEN cuErr' = w.err /\ cupc' = "done"
              ELSE IF w.n # Len(cuChunk)
                     THEN cuErr' = ShortWriteErr /\ cupc' = "done"
                     ELSE IF cuReadRet.err # Nil
                            THEN /\ cuErr' = (IF cuReadRet.err = EOF THEN Nil
                                              ELSE cuReadRet.err)
                                 /\ cupc' = "done"
                            ELSE cuErr' = cuErr /\ cupc' = "read"
    /\ UNCHANGED <<cuData, cuPos, cuChunk, cuInner, cuReadRet, cuEager, cuGot>>
    /\ CuFrame

CuNext ==
    \/ CuRead
    \/ CuReadEOF
    \/ CuWrite

\* ------------------------------------------- uploadHandler, two requests
\* net/http serves every request in a goroutine of its own: two requests to
\* /upload that have passed the method check and hold the part "file".
Requests == {1, 2}

\* (*os.File).Write at the descriptor's offset: the bytes replace what is
\* there, and a file shorter than the offset is filled with zero bytes.
WriteAt(data, off, chunk) ==
    [i \in 1..(IF Len(data) > off + Len(chunk) THEN Len(data) ELSE off + Len(chunk)) |->
        IF i > off /\ i <= off + Len(chunk) THEN chunk[i - off]
        ELSE IF i <= Len(data) THEN data[i]
        ELSE 0]

\* Another request holds the file `name` open for writing.
OpenElsewhere(r, name) ==
    \E q \in Requests \ {r} : uupc[q] = "copy" /\ uuName[q] = name

UuIdle ==
    /\ uuName = <<>>
    /\ uuBody = <<>>
    /\ uupc = <<>>
    /\ uuPos = <<>>
    /\ uuStatus = <<>>
    /\ uuClash = FALSE

\* Two requests have arrived, each with a part of the given bytes.
UuArrive(bodies) ==
    /\ uuName \in [Requests -> DiskNames]
    /\ uuBody \in [Requests -> bodies]
    /\ uupc = [r \in Requests |-> "start"]
    /\ uuPos = [r \in Requests |-> 0]
    /\ uuStatus = [r \in Requests |-> 0]
    /\ uuClash = FALSE

\* Two requests have arrived; ./uploads is empty.
UuInit ==
    /\ disk = [f \in DiskNames |-> NoFile]
    /\ UuArrive(SeqsUpTo(MaxFileLen))

\* dst, err := os.Create("uploads/" + header.Filename): O_CREATE|O_TRUNC, no
\* O_EXCL and no lock
UuCreate(r) ==
    /\ uupc[r] = "start"
    /\ disk' = [disk EXCEPT ![uuName[r]] = File(<<>>)]
    /\ uuClash' = (uuClash \/ OpenElsewhere(r, uuName[r]))
    /\ uupc' = [uupc EXCEPT ![r] = "copy"]
    /\ UNCHANGED <<uuName, uuBody, uuPos, uuStatus>>
    /\ UuFrame

\* os.Create fails: http.Error 500
UuCreateFails(r) ==
    /\ uupc[r] = "start"
    /\ uuStatus' = [uuStatus EXCEPT ![r] = 500]
    /\ uupc' = [uupc EXCEPT ![r] = "done"]
    /\ UNCHANGED <<uuName, uuBody, uuPos, uuClash>>
    /\ UNCHANGED diskVars
    /\ UuFrame

\* io.Copy(dst, file): a chunk of the part is written at dst's offset
UuCopyChunk(r) ==
    /\ uupc[r] = "copy"
    /\ uuPos[r] < Len(uuBody[r])
    /\ LET n == Min(CopyBuf, Len(uuBody[r]) - uuPos[r])
           chunk == SubSeq(uuBody[r], uuPos[r] + 1, uuPos[r] + n)
       IN
         /\ disk' = [disk EXCEPT ![uuName[r]] =
                        File(WriteAt(@.data, uuPos[r], chunk))]
         /\ uuPos' = [uuPos EXCEPT ![r] = @ + n]
    /\ uuClash' = (uuClash \/ OpenElsewhere(r, uuName[r]))
    /\ UNCHANGED <<uuName, uuBody, uupc, uuStatus>>
    /\ UuFrame

\* io.Copy(dst, file) fails: http.Error 500, the deferred dst.Close() runs
UuCopyFails(r) ==
    /\ uupc[r] = "copy"
    /\ uuPos[r] < Len(uuBody[r])
    /\ uuStatus' = [uuStatus EXCEPT ![r] = 500]
    /\ uupc' = [uupc EXCEPT ![r] = "done"]
    /\ UNCHANGED <<uuName, uuBody, uuPos, uuClash>>
    /\ UNCHANGED diskVars
    /\ UuFrame

\* io.Copy returns at the end of the part: the success line (status 200),
\* the deferred dst.Close() runs
UuSuccess(r) ==
    /\ uupc[r] = "copy"
    /\ uuPos[r] = Len(uuBody[r])
    /\ uuStatus' = [uuStatus EXCEPT ![r] = 200]
    /\ uupc' = [uupc EXCEPT ![r] = "done"]
    /\ UNCHANGED <<uuName, uuBody, uuPos, uuClash>>
    /\ UNCHANGED diskVars
    /\ UuFrame

UuNext ==
    \E r \in Requests :
        \/ UuCreate(r)
        \/ UuCreateFails(r)
        \/ UuCopyChunk(r)
        \/ UuCopyFails(r)
        \/ UuSuccess(r)

\* ------------------------------------------------ readFileWithTimeout
TimeoutErr == "context deadline exceeded"

\* Returned by readFileWithTimeout before it has returned.
NoReturn == [data |-> <<>>, err |-> "none"]

RtIdle ==
    /\ rtData = <<>>
    /\ rtFault = 0
    /\ rtg = "idle"
    /\ rtPos = 0
    /\ rtReads = 0
    /\ rtResultChan = <<>>
    /\ rtErrorChan = <<>>
    /\ rtm = "idle"
    /\ rtRet = NoReturn
    /\ rtLate = 0

\* The context, the two channels of capacity 1 and the goroutine are made;
\* the function waits in the select.
RtInit ==
    /\ rtData \in {Ramp(n) : n \in 0..MaxFileLen}
    /\ rtFault \in 0..MaxReads
    /\ rtg \in {"open", "nofile"}
    /\ rtPos = 0
    /\ rtReads = 0
    /\ rtResultChan = <<>>
    /\ rtErrorChan = <<>>
    /\ rtm = "select"
    /\ rtRet = NoReturn
    /\ rtLate = 0

\* make(chan []byte, 1), make(chan error, 1)
ChanCap == 1

\* A send on an unbuffered channel goes through only while the function
\* waits in the select.
CanSendUnbuffered(ch) == rtm = "select"

\* ch <- v goes through without a receiver while the buffer has room.
CanSend(ch) == Len(ch) < ChanCap

\* A Read of the file counts as late when the function has returned the
\* timeout.
Late(ret) == IF ret.err = TimeoutErr THEN 1 ELSE 0

\* goroutine: os.Open(filename) succeeds
RtOpen ==
    /\ rtg = "open"
    /\ rtg' = "read"
    /\ UNCHANGED <<rtData, rtFault, rtPos, rtReads, rtResultChan, rtErrorChan,
                   rtm, rtRet, rtLate>>
    /\ RtFrame

\* goroutine: os.Open fails; errorChan <- err; return
RtOpenFails ==
    /\ rtg = "nofile"
    /\ CanSend(rtErrorChan)
    /\ rtErrorChan' = <<OpenErr>>
    /\ rtg' = "done"
    /\ UNCHANGED <<rtData, rtFault, rtPos, rtReads, rtResultChan, rtm, rtRet,
                   rtLate>>
    /\ RtFrame

\* goroutine: io.ReadAll(file) makes a Read that returns bytes. Nothing in
\* the goroutine looks at ctx.
RtRead ==
    /\ rtg = "read"
    /\ rtPos < Len(rtData)
    /\ rtReads + 1 # rtFault
    /\ rtPos' = rtPos + Min(CopyBuf, Len(rtData) - rtPos)
    /\ rtReads' = rtReads + 1
    /\ rtLate' = rtLate + Late(rtRet)
    /\ UNCHANGED <<rtData, rtFault, rtg, rtResultChan, rtErrorChan, rtm, rtRet>>
    /\ RtFrame

\* goroutine: the Read at the end of the file returns io.EOF; io.ReadAll
\* returns the data; resultChan <- data; the deferred file.Close()
RtReadEOF ==
    /\ rtg = "read"
    /\ rtPos = Len(rtData)
    /\ rtReads + 1 # rtFault
    /\ CanSend(rtResultChan)
    /\ rtReads' = rtReads + 1
    /\ rtLate' = rtLate + Late(rtRet)
    /\ rtResultChan' = rtResultChan \o <<rtData>>
    /\ rtg' = "done"
    /\ UNCHANGED <<rtData, rtFault, rtPos, rtErrorChan, rtm, rtRet>>
    /\ RtFrame

\* goroutine: a Read fails; errorChan <- err; the deferred file.Close()
RtReadFails ==
    /\ rtg = "read"
    /\ rtReads + 1 = rtFault
    /\ CanSend(rtErrorChan)
    /\ rtReads' = rtReads + 1
    /\ rtLate' = rtLate + Late(rtRet)
    /\ rtErrorChan' = rtErrorChan \o <<ReadErr>>
    /\ rtg' = "done"
    /\ UNCHANGED <<rtData, rtFault, rtPos, rtResultChan, rtm, rtRet>>
    /\ RtFrame

\* select: case <-ctx.Done(): the timeout has passed; return nil and the
\* timeout error (the deferred cancel() runs)
RtTimeout ==
    /\ rtm = "select"
    /\ rtRet' = [data |-> <<>>, err |-> TimeoutErr]
    /\ rtm' = "returned"
    /\ UNCHANGED <<rtData, rtFault, rtg, rtPos, rtReads, rtResultChan,
                   rtErrorChan, rtLate>>
    /\ RtFrame

\* select: case err := <-errorChan: return nil, err
RtReceiveError ==
    /\ rtm = "select"
    /\ rtErrorChan # <<>>
    /\ rtRet' = [data |-> <<>>, err |-> rtErrorChan[1]]
    /\ rtErrorChan' = <<>>
    /\ rtm' = "returned"
    /\ UNCHANGED <<rtData, rtFault, rtg, rtPos, rtReads, rtResultChan, rtLate>>
    /\ RtFrame

\* select: case data := <-resultChan: return data, nil
RtReceiveData ==
    /\ rtm = "select"
    /\ rtResultChan # <<>>
    /\ rtRet' = [data |-> rtResultChan[1], err |-> Nil]
    /\ rtResultChan' = <<>>
    /\ rtm' = "returned"
    /\ UNCHANGED <<rtData, rtFault, rtg, rtPos, rtReads, rtErrorChan, rtLate>>
    /\ RtFrame

\* The steps of the reading goroutine.
RtGoroutine == RtOpen \/ RtOpenFails \/ RtRead \/ RtReadEOF \/ RtReadFails

\* The cases of the select.
RtSelect == RtTimeout \/ RtReceiveError \/ RtReceiveData

RtNext ==
    \/ RtOpen
    \/ RtOpenFails
    \/ RtRead
    \/ RtReadEOF
    \/ RtReadFails
    \/ RtTimeout
    \/ RtReceiveError
    \/ RtReceiveData

\* ------------------------------------------- bufferPool, copyFileWithPool
\* syncPoolTestPattern starts one goroutine per file of its list.
NumCalls == 3

Calls == 1..NumCalls

\* Put only where the copy succeeded: a Put written after io.CopyBuffer
\* instead of deferred.
PutOnExitNilOnly(err) == err = Nil

\* defer bufferPool.Put(bufferPtr): the Put runs however the function
\* returns once the buffer is taken.
PutOnExit(err) == TRUE

PlIdle ==
    /\ plPool = {}
    /\ plMade = 0
    /\ plpc = <<>>
    /\ plHeld = <<>>
    /\ plErr = <<>>
    /\ plGot = <<>>
    /\ plBack = <<>>

\* The goroutines are started; bufferPool is empty.
PlInit ==
    /\ plPool = {}
    /\ plMade = 0
    /\ plpc = [c \in Calls |-> "open"]
    /\ plHeld = [c \in Calls |-> 0]
    /\ plErr = [c \in Calls |-> Nil]
    /\ plGot = [c \in Calls |-> 0]
    /\ plBack = [c \in Calls |-> 0]

\* os.Open(src) and os.Create(dst) succeed
PlOpenCreate(c) ==
    /\ plpc[c] = "open"
    /\ plpc' = [plpc EXCEPT ![c] = "get"]
    /\ UNCHANGED <<plPool, plMade, plHeld, plErr, plGot, plBack>>
    /\ PlFrame

\* os.Open(src) or os.Create(dst) fails: return err, before any Get
PlOpenCreateFails(c) ==
    /\ plpc[c] = "open"
    /\ plErr' = [plErr EXCEPT ![c] = OpenErr]
    /\ plpc' = [plpc EXCEPT ![c] = "done"]
    /\ UNCHANGED <<plPool, plMade, plHeld, plGot, plBack>>
    /\ PlFrame

\* bufferPool.Get() hands out a pooled buffer and takes it out of the pool
PlGetPooled(c) ==
    /\ plpc[c] = "get"
    /\ \E b \in plPool :
         /\ plPool' = plPool \ {b}
         /\ plHeld' = [plHeld EXCEPT ![c] = b]
         /\ plGot' = [plGot EXCEPT ![c] = b]
    /\ plpc' = [plpc EXCEPT ![c] = "copy"]
    /\ UNCHANGED <<plMade, plErr, plBack>>
    /\ PlFrame

\* bufferPool.Get() finds no buffer it can reach (the pool is empty, or its
\* buffers sit in the cache of another P) and calls New
PlGetNew(c) ==
    /\ plpc[c] = "get"
    /\ plMade' = plMade + 1
    /\ plHeld' = [plHeld EXCEPT ![c] = plMade + 1]
    /\ plGot' = [plGot EXCEPT ![c] = plMade + 1]
    /\ plpc' = [plpc EXCEPT ![c] = "copy"]
    /\ UNCHANGED <<plPool, plErr, plBack>>
    /\ PlFrame

\* io.CopyBuffer(dest, source, buffer) returns, with nil or with a fault
PlCopy(c) ==
    /\ plpc[c] = "copy"
    /\ \E err \in {Nil, ReadErr, WriteErr} :
         plErr' = [plErr EXCEPT ![c] = err]
    /\ plpc' = [plpc EXCEPT ![c] = "return"]
    /\ UNCHANGED <<plPool, plMade, plHeld, plGot, plBack>>
    /\ PlFrame

\* return err: the deferred bufferPool.Put(bufferPtr), dest.Close() and
\* source.Close() run
PlReturn(c) ==
    /\ plpc[c] = "return"
    /\ IF PutOnExit(plErr[c])
         THEN /\ plPool' = plPool \cup {plHeld[c]}
              /\ plBack' = [plBack EXCEPT ![c] = plHeld[c]]
         ELSE UNCHANGED <<plPool, plBack>>
    /\ plHeld' = [plHeld EXCEPT ![c] = 0]
    /\ plpc' = [plpc EXCEPT ![c] = "done"]
    /\ UNCHANGED <<plMade, plErr, plGot>>
    /\ PlFrame

\* The garbage collector empties the pool: sync.Pool keeps no buffer for
\* certain.
PlCollect ==
    /\ plPool # {}
    /\ plPool' = {}
    /\ UNCHANGED <<plMade, plpc, plHeld, plErr, plGot, plBack>>
    /\ PlFrame

PlNext ==
    \/ \E c \in Calls :
          \/ PlOpenCreate(c)
          \/ PlOpenCreateFails(c)
          \/ PlGetPooled(c)
          \/ PlGetNew(c)
          \/ PlCopy(c)
          \/ PlReturn(c)
    \/ PlCollect

\* ------------------------------------------------------- compressStream
\* What gzipWriter writes to pw for a chunk of input, and when it is closed.
Gzip(chunk) == [gz |-> chunk]
GzipTrailer == [gz |-> "trailer"]

CsIdle ==
    /\ csData = <<>>
    /\ csFault = 0
    /\ csg = "idle"
    /\ csPos = 0
    /\ csReads = 0
    /\ csCopyErr = Nil
    /\ csSlot = <<>>
    /\ csErr = Nil
    /\ csGot = <<>>
    /\ csEnd = "none"

\* compressStream has returned pr: the goroutine is at io.Copy, the
\* downstream stage (writeFile's io.Copy) reads pr.
CsInit ==
    /\ csData \in SeqsUpTo(MaxFileLen)
    /\ csFault \in 0..MaxReads
    /\ csg = "copy"
    /\ csPos = 0
    /\ csReads = 0
    /\ csCopyErr = Nil
    /\ csSlot = <<>>
    /\ csErr = Nil
    /\ csGot = <<>>
    /\ csEnd = "none"

\* io.Copy(gzipWriter, r): r.Read returns bytes, gzipWriter.Write compresses
\* them into pw.Write, which blocks until pr is read
CsCopyChunk ==
    /\ csg = "copy"
    /\ csPos < Len(csData)
    /\ csReads + 1 # csFault
    /\ \E nr \in 1..Min(CopyBuf, Len(csData) - csPos) :
         /\ csSlot' = <<Gzip(SubSeq(csData, csPos + 1, csPos + nr))>>
         /\ csPos' = csPos + nr
    /\ csReads' = csReads + 1
    /\ csg' = "written"
    /\ UNCHANGED <<csData, csFault, csCopyErr, csErr, csGot, csEnd>>
    /\ CsFrame

\* io.Copy(gzipWriter, r): r.Read returns io.EOF, io.Copy returns nil
CsCopyEnds ==
    /\ csg = "copy"
    /\ csPos = Len(csData)
    /\ csReads + 1 # csFault
    /\ csReads' = csReads + 1
    /\ csg' = "gzipClose"
    /\ UNCHANGED <<csData, csFault, csPos, csCopyErr, csSlot, csErr, csGot, csEnd>>
    /\ CsFrame

\* io.Copy(gzipWriter, r): r.Read fails; io.Copy returns the fault, which
\* the statement `io.Copy(gzipWriter, r)` does not keep
CsCopyFails ==
    /\ csg = "copy"
    /\ csReads + 1 = csFault
    /\ csReads' = csReads + 1
    /\ csCopyErr' = ReadErr
    /\ csg' = "gzipClose"
    /\ UNCHANGED <<csData, csFault, csPos, csSlot, csErr, csGot, csEnd>>
    /\ CsFrame

\* gzipWriter.Close() writes the trailer to pw
CsGzipClose ==
    /\ csg = "gzipClose"
    /\ csSlot' = <<GzipTrailer>>
    /\ csg' = "trailer"
    /\ UNCHANGED <<csData, csFault, csPos, csReads, csCopyErr, csErr, csGot, csEnd>>
    /\ CsFrame

\* downstream: pr.Read takes what the blocked pw.Write offers; the Write
\* returns
CsPipeRead ==
    /\ csEnd = "none"
    /\ csSlot # <<>>
    /\ csGot' = csGot \o csSlot
    /\ csSlot' = <<>>
    /\ csg' = (IF csg = "written" THEN "copy" ELSE "pipeClose")
    /\ UNCHANGED <<csData, csFault, csPos, csReads, csCopyErr, csErr, csEnd>>
    /\ CsFrame

\* pw.Close(): closeWrite(nil) stores io.EOF
CsPipeClose ==
    /\ csg = "pipeClose"
    /\ csErr' = OnceErrorStore(csErr, EOF)
    /\ csg' = "done"
    /\ UNCHANGED <<csData, csFault, csPos, csReads, csCopyErr, csSlot, csGot, csEnd>>
    /\ CsFrame

\* downstream: pr.Read on the closed pipe returns the stored error; its
\* io.Copy ends
CsPipeReadClosed ==
    /\ csEnd = "none"
    /\ csg = "done"
    /\ csEnd' = ReadCloseError(csErr)
    /\ UNCHANGED <<csData, csFault, csg, csPos, csReads, csCopyErr, csSlot,
                   csErr, csGot>>
    /\ CsFrame

CsNext ==
    \/ CsCopyChunk
    \/ CsCopyEnds
    \/ CsCopyFails
    \/ CsGzipClose
    \/ CsPipeRead
    \/ CsPipeClose
    \/ CsPipeReadClosed

\* ------------------------------------- chunkedFilePattern, readPattern
\* The two read loops, over a reader whose Read may return bytes, 0 bytes
\* with nil, io.EOF, or a fault, as the io.Reader contract allows.
Loops == {"chunked", "read"}

\* A Read that returns 0 bytes and a nil error.
Stall == [n |-> 0, bytes |-> <<>>, err |-> Nil]

\* The loop's reaction to what Read returned: TRUE if it breaks.
\* chunkedFilePattern: err != nil && err != io.EOF breaks; n == 0 breaks.
\* readPattern: err == io.EOF breaks; err != nil breaks.
Breaks(loop, ret) ==
    IF loop = "chunked"
    THEN (ret.err # Nil /\ ret.err # EOF) \/ ret.n = 0
    ELSE ret.err = EOF \/ ret.err # Nil

RlIdle ==
    /\ rlLoop = "chunked"
    /\ rlData = <<>>
    /\ rlPos = 0
    /\ rlReads = 0
    /\ rlLast = NoRead
    /\ rlTotal = 0
    /\ rlpc = "idle"

\* The buffer is made and the loop is entered.
RlInit ==
    /\ rlLoop \in Loops
    /\ rlData \in SeqsUpTo(MaxFileLen)
    /\ rlPos = 0
    /\ rlReads = 0
    /\ rlLast = NoRead
    /\ rlTotal = 0
    /\ rlpc = "loop"

\* One pass of the loop with the given result of Read: break, or run the
\* body on buf[:n] and go round again.
RlPass(ret) ==
    /\ rlReads' = rlReads + 1
    /\ rlLast' = ret
    /\ rlPos' = rlPos + ret.n
    /\ IF Breaks(rlLoop, ret)
       THEN rlpc' = "done" /\ rlTotal' = rlTotal
       ELSE rlpc' = "loop" /\ rlTotal' = rlTotal + ret.n
    /\ UNCHANGED <<rlLoop, rlData>>
    /\ RlFrame

\* n, err := Read(buf): bytes, or io.EOF at the end of the data
RlRead ==
    /\ rlpc = "loop"
    /\ RlPass(SourceRead(rlData, rlPos, CopyBuf))

\* n, err := Read(buf): 0 bytes and nil
RlReadStalls ==
    /\ rlpc = "loop"
    /\ rlReads < MaxReads
    /\ RlPass(Stall)

\* n, err := Read(buf): a fault
RlReadFails ==
    /\ rlpc = "loop"
    /\ RlPass([n |-> 0, bytes |-> <<>>, err |-> ReadErr])

RlNext ==
    \/ RlRead
    \/ RlReadStalls
    \/ RlReadFails

\* --------------------------------------------------------- safeCopyFile
ScOpenErr == "open source: failed"
CreateErr == "create destination: failed"
CopyErr == "copy: failed"
SyncErr == "sync: failed"
ScFaults == {"none", "create", "copy", "sync"}

\* The deferred closure removes dst when the function does not see success.
RollsBackNever(err) == FALSE

\* The deferred closure: if err != nil { os.Remove(dst) }, err being the
\* named result, which every return statement has set by then.
RollsBack(err) == err # Nil

ScIdle ==
    /\ scSrc = NoFile
    /\ scDst = NoFile
    /\ scFault = "none"
    /\ scpc = "idle"
    /\ scErr = Nil
    /\ scPos = 0
    /\ scDstOpen = FALSE
    /\ scCreated = FALSE
    /\ scSynced = <<>>

\* safeCopyFile(src, dst) is called; src and dst are two paths, each there
\* or not.
ScInit ==
    /\ scSrc \in {NoFile} \cup {File(b) : b \in SeqsUpTo(MaxFileLen)}
    /\ scDst \in {NoFile} \cup {File(Ramp(n)) : n \in 0..MaxFileLen}
    /\ scFault \in ScFaults
    /\ scpc = "open"
    /\ scErr = Nil
    /\ scPos = 0
    /\ scDstOpen = FALSE
    /\ scCreated = FALSE
    /\ scSynced = <<>>

\* sourceFile, err := os.Open(src); defer sourceFile.Close()
ScOpen ==
    /\ scpc = "open"
    /\ scSrc.exists
    /\ scpc' = "create"
    /\ UNCHANGED <<scSrc, scDst, scFault, scErr, scPos, scDstOpen, scCreated, scSynced>>
    /\ ScFrame

\* os.Open(src) fails: return fmt.Errorf(..., err)
ScOpenFails ==
    /\ scpc = "open"
    /\ ~scSrc.exists
    /\ scErr' = ScOpenErr
    /\ scpc' = "done"
    /\ UNCHANGED <<scSrc, scDst, scFault, scPos, scDstOpen, scCreated, scSynced>>
    /\ ScFrame

\* destFile, err := os.Create(dst): the file is created or truncated; the
\* closure is deferred
ScCreate ==
    /\ scpc = "create"
    /\ scFault # "create"
    /\ scDst' = File(<<>>)
    /\ scDstOpen' = TRUE
    /\ scCreated' = TRUE
    /\ scpc' = "copy"
    /\ UNCHANGED <<scSrc, scFault, scErr, scPos, scSynced>>
    /\ ScFrame

\* os.Create(dst) fails: return fmt.Errorf(..., err);
\* the deferred sourceFile.Close() runs
ScCreateFails ==
    /\ scpc = "create"
    /\ scFault = "create"
    /\ scErr' = CreateErr
    /\ scpc' = "done"
    /\ UNCHANGED <<scSrc, scDst, scFault, scPos, scDstOpen, scCreated, scSynced>>
    /\ ScFrame

\* io.Copy(destFile, sourceFile): a chunk is read and written
ScCopyChunk ==
    /\ scpc = "copy"
    /\ scPos < Len(scSrc.data)
    /\ LET n == Min(CopyBuf, Len(scSrc.data) - scPos) IN
         /\ scDst' = File(scDst.data \o SubSeq(scSrc.data, scPos + 1, scPos + n))
         /\ scPos' = scPos + n
    /\ UNCHANGED <<scSrc, scFault, scpc, scErr, scDstOpen, scCreated, scSynced>>
    /\ ScFrame

\* io.Copy fails at a read or a write: return fmt.Errorf(..., err)
\* sets the named result; the deferred calls run next
ScCopyFails ==
    /\ scpc = "copy"
    /\ scFault = "copy"
    /\ scErr' = CopyErr
    /\ scpc' = "deferred"
    /\ UNCHANGED <<scSrc, scDst, scFault, scPos, scDstOpen, scCreated, scSynced>>
    /\ ScFrame

\* io.Copy returns nil at the end of the source
ScCopyEnds ==
    /\ scpc = "copy"
    /\ scFault # "copy"
    /\ scPos = Len(scSrc.data)
    /\ scpc' = "sync"
    /\ UNCHANGED <<scSrc, scDst, scFault, scErr, scPos, scDstOpen, scCreated, scSynced>>
    /\ ScFrame

\* err = destFile.Sync() succeeds; return nil
ScSync ==
    /\ scpc = "sync"
    /\ scFault # "sync"
    /\ scSynced' = IF scDstOpen THEN <<scDst.data>> ELSE scSynced
    /\ scErr' = Nil
    /\ scpc' = "deferred"
    /\ UNCHANGED <<scSrc, scDst, scFault, scPos, scDstOpen, scCreated>>
    /\ ScFrame

\* destFile.Sync() fails: return fmt.Errorf(..., err)
ScSyncFails ==
    /\ scpc = "sync"
    /\ scFault = "sync"
    /\ scErr' = SyncErr
    /\ scpc' = "deferred"
    /\ UNCHANGED <<scSrc, scDst, scFault, scPos, scDstOpen, scCreated, scSynced>>
    /\ ScFrame

\* The deferred closure: destFile.Close(); if err != nil { os.Remove(dst) };
\* then the deferred sourceFile.Close(); the function returns err
ScDeferred ==
    /\ scpc = "deferred"
    /\ scDstOpen' = FALSE
    /\ scDst' = IF RollsBack(scErr) THEN NoFile ELSE scDst
    /\ scpc' = "done"
    /\ UNCHANGED <<scSrc, scFault, scErr, scPos, scCreated, scSynced>>
    /\ ScFrame

ScNext ==
    \/ ScOpen
    \/ ScOpenFails
    \/ ScCreate
    \/ ScCreateFails
    \/ ScCopyChunk
    \/ ScCopyFails
    \/ ScCopyEnds
    \/ ScSync
    \/ ScSyncFails
    \/ ScDeferred

\* ------------------------------------------------ compressFilesParallel
\* Longest list of files and largest worker count the model enumerates.
MaxFiles == 3
MaxWorkers == 2
Workers == 1..MaxWorkers
CompressErr == "compress: failed"

\* The error compressFilesParallel returns: fmt.Errorf with errorCount
Failed(count) == [failed |-> count]

\* make(chan string, len(files))
JobsCap(files) == Len(files)

\* An unbuffered results channel.
ResultsCapUnbuffered(files) == 0

\* make(chan error, len(files))
ResultsCap(files) == Len(files)

CpIdle ==
    /\ cpFiles = <<>>
    /\ cpWorkers = 0
    /\ cpJobs = <<>>
    /\ cpJobsClosed = FALSE
    /\ cpResults = <<>>
    /\ cpw = <<>>
    /\ cpwJob = <<>>
    /\ cpm = "idle"
    /\ cpSent = 0
    /\ cpCount = 0
    /\ cpSeen = 0
    /\ cpRet = "none"
    /\ cpTaken = <<>>
    /\ cpDone = <<>>

\* The channels are made and the loop `for i := 0; i < workers; i++` has
\* started the worker goroutines; the caller is about to send the jobs.
CpInit ==
    /\ cpFiles \in UNION {[1..n -> BOOLEAN] : n \in 0..MaxFiles}
    /\ cpWorkers \in 0..MaxWorkers
    /\ cpJobs = <<>>
    /\ cpJobsClosed = FALSE
    /\ cpResults = <<>>
    /\ cpw = [w \in Workers |-> IF w <= cpWorkers THEN "range" ELSE "none"]
    /\ cpwJob = [w \in Workers |-> 0]
    /\ cpm = "send"
    /\ cpSent = 0
    /\ cpCount = 0
    /\ cpSeen = 0
    /\ cpRet = "none"
    /\ cpTaken = [f \in 1..Len(cpFiles) |-> 0]
    /\ cpDone = [f \in 1..Len(cpFiles) |-> 0]

\* caller: jobs <- file
CpSend ==
    /\ cpm = "send"
    /\ cpSent < Len(cpFiles)
    /\ Len(cpJobs) < JobsCap(cpFiles)
    /\ cpJobs' = Append(cpJobs, cpSent + 1)
    /\ cpSent' = cpSent + 1
    /\ UNCHANGED <<cpFiles, cpWorkers, cpJobsClosed, cpResults, cpw, cpwJob, cpm,
                   cpCount, cpSeen, cpRet, cpTaken, cpDone>>
    /\ CpFrame

\* caller: close(jobs); wg.Wait()
CpCloseJobs ==
    /\ cpm = "send"
    /\ cpSent = Len(cpFiles)
    /\ cpJobsClosed' = TRUE
    /\ cpm' = "wait"
    /\ UNCHANGED <<cpFiles, cpWorkers, cpJobs, cpResults, cpw, cpwJob, cpSent,
                   cpCount, cpSeen, cpRet, cpTaken, cpDone>>
    /\ CpFrame

\* worker: for inputFile := range jobs receives a file
CpTake(w) ==
    /\ cpw[w] = "range"
    /\ cpJobs # <<>>
    /\ cpwJob' = [cpwJob EXCEPT ![w] = Head(cpJobs)]
    /\ cpJobs' = Tail(cpJobs)
    /\ cpTaken' = [cpTaken EXCEPT ![Head(cpJobs)] = @ + 1]
    /\ cpw' = [cpw EXCEPT ![w] = "compress"]
    /\ UNCHANGED <<cpFiles, cpWorkers, cpJobsClosed, cpResults, cpm, cpSent,
                   cpCount, cpSeen, cpRet, cpDone>>
    /\ CpFrame

\* worker: err := compressFile(inputFile, outputFile); results <- err
CpCompress(w) ==
    /\ cpw[w] = "compress"
    /\ Len(cpResults) < ResultsCap(cpFiles)
    /\ cpResults' = Append(cpResults, IF cpFiles[cpwJob[w]] THEN CompressErr ELSE Nil)
    /\ cpDone' = [cpDone EXCEPT ![cpwJob[w]] = @ + 1]
    /\ cpwJob' = [cpwJob EXCEPT ![w] = 0]
    /\ cpw' = [cpw EXCEPT ![w] = "range"]
    /\ UNCHANGED <<cpFiles, cpWorkers, cpJobs, cpJobsClosed, cpm, cpSent,
                   cpCount, cpSeen, cpRet, cpTaken>>
    /\ CpFrame

\* worker: range jobs ends, jobs being closed and empty; wg.Done()
CpWorkerEnds(w) ==
    /\ cpw[w] = "range"
    /\ cpJobs = <<>>
    /\ cpJobsClosed
    /\ cpw' = [cpw EXCEPT ![w] = "done"]
    /\ UNCHANGED <<cpFiles, cpWorkers, cpJobs, cpJobsClosed, cpResults, cpwJob,
                   cpm, cpSent, cpCount, cpSeen, cpRet, cpTaken, cpDone>>
    /\ CpFrame

\* caller: wg.Wait() returns, every worker having called wg.Done();
\* close(results)
CpWait ==
    /\ cpm = "wait"
    /\ \A w \in Workers : cpw[w] \in {"done", "none"}
    /\ cpm' = "collect"
    /\ UNCHANGED <<cpFiles, cpWorkers, cpJobs, cpJobsClosed, cpResults, cpw,
                   cpwJob, cpSent, cpCount, cpSeen, cpRet, cpTaken, cpDone>>
    /\ CpFrame

\* caller: for err := range results receives a value; errorCount++ if it is
\* an error
CpCollect ==
    /\ cpm = "collect"
    /\ cpResults # <<>>
    /\ cpCount' = IF Head(cpResults) # Nil THEN cpCount + 1 ELSE cpCount
    /\ cpSeen' = cpSeen + 1
    /\ cpResults' = Tail(cpResults)
    /\ UNCHANGED <<cpFiles, cpWorkers, cpJobs, cpJobsClosed, cpw, cpwJob, cpm,
                   cpSent, cpRet, cpTaken, cpDone>>
    /\ CpFrame

\* caller: range results ends; the error with errorCount if it is above 0,
\* nil otherwise
CpReturn ==
    /\ cpm = "collect"
    /\ cpResults = <<>>
    /\ cpRet' = IF cpCount > 0 THEN Failed(cpCount) ELSE Nil
    /\ cpm' = "returned"
    /\ UNCHANGED <<cpFiles, cpWorkers, cpJobs, cpJobsClosed, cpResults, cpw,
                   cpwJob, cpSent, cpCount, cpSeen, cpTaken, cpDone>>
    /\ CpFrame

CpNext ==
    \/ CpSend
    \/ CpCloseJobs
    \/ \E w \in Workers : CpTake(w)
    \/ \E w \in Workers : CpCompress(w)
    \/ \E w \in Workers : CpWorkerEnds(w)
    \/ CpWait
    \/ CpCollect
    \/ CpReturn

\* ------------------------------------------------ LogAnalyzer.AnalyzerFile
\* Most lines a log file holds.
MaxLines == 2
LineKinds == {"ERROR", "INFO"}
LaReadErr == "read: failed"

\* NewLogAnalyzer(): the statistics start at zero.
NewStats == [TotalLines |-> 0, ErrorCount |-> 0, InfoCount |-> 0]

\* processLine(line)
ProcessLine(stats, line) ==
    [TotalLines |-> stats.TotalLines + 1,
     ErrorCount |-> stats.ErrorCount + (IF line = "ERROR" THEN 1 ELSE 0),
     InfoCount |-> stats.InfoCount + (IF line = "INFO" THEN 1 ELSE 0)]

LaIdle ==
    /\ laOpenOk = FALSE
    /\ laLines = <<>>
    /\ laNoNewline = FALSE
    /\ laFault = 0
    /\ lapc = "idle"
    /\ laNext = 0
    /\ laReads = 0
    /\ laStats = NewStats
    /\ laRet = "none"

\* main calls analyzer.AnalyzerFile(logFile) on a new analyzer.
LaInit ==
    /\ laOpenOk \in BOOLEAN
    /\ laLines \in UNION {[1..n -> LineKinds] : n \in 0..MaxLines}
    /\ laNoNewline \in BOOLEAN
    /\ laFault \in 0..MaxReads
    /\ lapc = "open"
    /\ laNext = 0
    /\ laReads = 0
    /\ laStats = NewStats
    /\ laRet = "none"

\* file, err := os.Open(filename) succeeds; defer file.Close()
LaOpen ==
    /\ lapc = "open"
    /\ laOpenOk
    /\ lapc' = "stat"
    /\ UNCHANGED <<laOpenOk, laLines, laNoNewline, laFault, laNext, laReads,
                   laStats, laRet>>
    /\ LaFrame

\* os.Open fails: the body of `if err != nil` builds an error with
\* fmt.Errorf and drops it; there is no return, and the function goes on
\* with file == nil
LaOpenFails ==
    /\ lapc = "open"
    /\ ~laOpenOk
    /\ lapc' = "stat"
    /\ UNCHANGED <<laOpenOk, laLines, laNoNewline, laFault, laNext, laReads,
                   laStats, laRet>>
    /\ LaFrame

\* fileInfo, _ := file.Stat(); fileSize := fileInfo.Size(); the reader is
\* made
LaStat ==
    /\ lapc = "stat"
    /\ laOpenOk
    /\ lapc' = "loop"
    /\ UNCHANGED <<laOpenOk, laLines, laNoNewline, laFault, laNext, laReads,
                   laStats, laRet>>
    /\ LaFrame

\* file is nil: file.Stat() returns a nil FileInfo and ErrInvalid, which is
\* dropped; fileInfo.Size() panics with a nil dereference
LaStatPanics ==
    /\ lapc = "stat"
    /\ ~laOpenOk
    /\ lapc' = "panicked"
    /\ UNCHANGED <<laOpenOk, laLines, laNoNewline, laFault, laNext, laReads,
                   laStats, laRet>>
    /\ LaFrame

\* reader.ReadString('\n') returns a line; la.processLine(line). A last line
\* without a newline comes with io.EOF: the loop ends, return nil
LaReadLine ==
    /\ lapc = "loop"
    /\ laReads + 1 # laFault
    /\ laNext < Len(laLines)
    /\ laNext' = laNext + 1
    /\ laReads' = laReads + 1
    /\ laStats' = ProcessLine(laStats, laLines[laNext + 1])
    /\ IF laNoNewline /\ laNext + 1 = Len(laLines)
       THEN lapc' = "returned" /\ laRet' = Nil
       ELSE lapc' = "loop" /\ laRet' = laRet
    /\ UNCHANGED <<laOpenOk, laLines, laNoNewline, laFault>>
    /\ LaFrame

\* reader.ReadString('\n') returns "" and io.EOF: break; return nil
LaReadEOF ==
    /\ lapc = "loop"
    /\ laReads + 1 # laFault
    /\ laNext = Len(laLines)
    /\ laReads' = laReads + 1
    /\ lapc' = "returned"
    /\ laRet' = Nil
    /\ UNCHANGED <<laOpenOk, laLines, laNoNewline, laFault, laNext, laStats>>
    /\ LaFrame

\* reader.ReadString('\n') fails: return fmt.Errorf(..., err)
LaReadFails ==
    /\ lapc = "loop"
    /\ laReads + 1 = laFault
    /\ laReads' = laReads + 1
    /\ lapc' = "returned"
    /\ laRet' = LaReadErr
    /\ UNCHANGED <<laOpenOk, laLines, laNoNewline, laFault, laNext, laStats>>
    /\ LaFrame

LaNext ==
    \/ LaOpen
    \/ LaOpenFails
    \/ LaStat
    \/ LaStatPanics
    \/ LaReadLine
    \/ LaReadEOF
    \/ LaReadFails

\* ------------------------------- the two ThrottledReaders under a copy loop
\* io.Copy keeps calling Read until io.EOF; time is counted in ticks since
\* the reader's last time stamp. Beyond ElapsedCap ticks either reader
\* allows a whole buffer, so the count stops there.
ThrottleKinds == {"elapsed", "bucket"}
ElapsedCap == TicksPerSec * CopyBuf

\* step02: tr.bucket += int64(bytesPerSec * elapsed.Seconds()), capped at
\* bytesPerSec
Refill(bucket, bps, elapsed) == Min(bucket + AllowedBytes(bps, elapsed), bps)

TbIdle ==
    /\ tbKind = "elapsed"
    /\ tbBps = 0
    /\ tbSize = 0
    /\ tbGot = 0
    /\ tbElapsed = 0
    /\ tbBucket = 0
    /\ tbEOF = FALSE

\* NewThrottledReader(r, bytesPerSec): the time stamp is now; step02 starts
\* with a full bucket. io.Copy is about to call Read.
TbInit ==
    /\ tbKind \in ThrottleKinds
    /\ tbBps \in 1..MaxRate
    /\ tbSize \in 0..MaxFileLen
    /\ tbGot = 0
    /\ tbElapsed = 0
    /\ tbBucket = IF tbKind = "bucket" THEN tbBps ELSE 0
    /\ tbEOF = FALSE

\* Time passes.
TbTick ==
    /\ ~tbEOF
    /\ tbElapsed < ElapsedCap
    /\ tbElapsed' = tbElapsed + 1
    /\ UNCHANGED <<tbKind, tbBps, tbSize, tbGot, tbBucket, tbEOF>>
    /\ TbFrame

\* What the inner reader returns for a buffer of `asked` bytes: n bytes, or
\* io.EOF at the end of the source.
TbInner(asked) ==
    /\ tbGot' = tbGot + Min(asked, tbSize - tbGot)
    /\ tbEOF' = (tbGot = tbSize)

\* step11, Read: allowedBytes from the time since lastRead; with nothing
\* allowed, time.Sleep(10ms) and 0, nil, lastRead as it was; otherwise the
\* inner Read and lastRead = time.Now()
TbReadElapsed ==
    /\ ~tbEOF
    /\ tbKind = "elapsed"
    /\ LET asked == ThrottleLen(AllowedBytes(tbBps, tbElapsed), CopyBuf) IN
         IF asked = 0
         THEN /\ \E d \in 0..1 : tbElapsed' = Min(tbElapsed + d, ElapsedCap)
              /\ UNCHANGED <<tbGot, tbEOF>>
         ELSE /\ TbInner(asked)
              /\ tbElapsed' = 0
    /\ UNCHANGED <<tbKind, tbBps, tbSize, tbBucket>>
    /\ TbFrame

\* step02, Read: lastTime = now at every call and the bucket is refilled
\* from the time since the previous call; with an empty bucket,
\* time.Sleep(10ms) and 0, nil; otherwise the inner Read, paid from the
\* bucket
TbReadBucket ==
    /\ ~tbEOF
    /\ tbKind = "bucket"
    /\ LET bucket == Refill(tbBucket, tbBps, tbElapsed) IN
         IF bucket <= 0
         THEN /\ \E d \in 0..1 : tbElapsed' = d
              /\ tbBucket' = bucket
              /\ UNCHANGED <<tbGot, tbEOF>>
         ELSE /\ TbInner(Min(CopyBuf, bucket))
              /\ tbBucket' = bucket - Min(Min(CopyBuf, bucket), tbSize - tbGot)
              /\ tbElapsed' = 0
    /\ UNCHANGED <<tbKind, tbBps, tbSize>>
    /\ TbFrame

\* A call of Read by the copy loop.
TbRead == TbReadElapsed \/ TbReadBucket

TbNext ==
    \/ TbTick
    \/ TbReadElapsed
    \/ TbReadBucket

\* ------------------------------------------------------- specifications
\* ioPipePattern
Init == PipeInit /\ LimIdle /\ TeeIdle /\ DiskIdle /\ DlIdle /\ UpIdle /\ ChIdle /\ PdIdle /\ CuIdle /\ UuIdle /\ RtIdle /\ PlIdle /\ CsIdle /\ RlIdle /\ ScIdle /\ CpIdle /\ LaIdle /\ TbIdle
Spec == Init /\ [][PipeNext]_vars

\* limitReaderPattern
InitLimit == LimInit /\ PipeIdle /\ TeeIdle /\ DiskIdle /\ DlIdle /\ UpIdle /\ ChIdle /\ PdIdle /\ CuIdle /\ UuIdle /\ RtIdle /\ PlIdle /\ CsIdle /\ RlIdle /\ ScIdle /\ CpIdle /\ LaIdle /\ TbIdle
SpecLimit == InitLimit /\ [][LimNext]_vars

\* teeReaderPattern
InitTee == TeeInit /\ PipeIdle /\ LimIdle /\ DiskIdle /\ DlIdle /\ UpIdle /\ ChIdle /\ PdIdle /\ CuIdle /\ UuIdle /\ RtIdle /\ PlIdle /\ CsIdle /\ RlIdle /\ ScIdle /\ CpIdle /\ LaIdle /\ TbIdle
SpecTee == InitTee /\ [][TeeNext]_vars

\* rangeDownloadHandler
InitDownload == DlInit /\ PipeIdle /\ LimIdle /\ TeeIdle /\ UpIdle /\ ChIdle /\ PdIdle /\ CuIdle /\ UuIdle /\ RtIdle /\ PlIdle /\ CsIdle /\ RlIdle /\ ScIdle /\ CpIdle /\ LaIdle /\ TbIdle
SpecDownload == InitDownload /\ [][DlNext]_vars

\* uploadHandler
InitUpload == UpInit /\ PipeIdle /\ LimIdle /\ TeeIdle /\ DlIdle /\ ChIdle /\ PdIdle /\ CuIdle /\ UuIdle /\ RtIdle /\ PlIdle /\ CsIdle /\ RlIdle /\ ScIdle /\ CpIdle /\ LaIdle /\ TbIdle
SpecUpload == InitUpload /\ [][UpNext]_vars

\* step11: the reader adapters under a caller that keeps reading
InitChain ==
    /\ ChInit /\ PipeIdle /\ LimIdle /\ TeeIdle /\ DiskIdle /\ DlIdle /\ UpIdle
    /\ PdIdle /\ CuIdle /\ UuIdle /\ RtIdle /\ PlIdle /\ CsIdle /\ RlIdle /\ ScIdle /\ CpIdle /\ LaIdle /\ TbIdle
SpecChain == InitChain /\ [][ChNext]_vars

\* downloadHandler
InitPlainDownload ==
    /\ PdInit /\ PipeIdle /\ LimIdle /\ TeeIdle /\ DlIdle /\ UpIdle /\ ChIdle
    /\ CuIdle /\ UuIdle /\ RtIdle /\ PlIdle /\ CsIdle /\ RlIdle /\ ScIdle /\ CpIdle /\ LaIdle /\ TbIdle
SpecPlainDownload == InitPlainDownload /\ [][PdNext]_vars

\* customReaderWriterPattern
InitCustom ==
    /\ CuInit /\ PipeIdle /\ LimIdle /\ TeeIdle /\ DiskIdle /\ DlIdle /\ UpIdle
    /\ ChIdle /\ PdIdle /\ UuIdle /\ RtIdle /\ PlIdle /\ CsIdle /\ RlIdle /\ ScIdle /\ CpIdle /\ LaIdle /\ TbIdle
SpecCustom == InitCustom /\ [][CuNext]_vars

\* /download and /range-download are registered on one server: a request to
\* each is served concurrently over the same ./uploads.
InitDownloads ==
    /\ DlInit /\ PdInit /\ PipeIdle /\ LimIdle /\ TeeIdle /\ UpIdle /\ ChIdle
    /\ CuIdle /\ UuIdle /\ RtIdle /\ PlIdle /\ CsIdle /\ RlIdle /\ ScIdle /\ CpIdle /\ LaIdle /\ TbIdle
SpecDownloads == InitDownloads /\ [][DlNext \/ PdNext]_vars

\* /download and /upload are registered on one server: a download runs
\* while two uploads of zero bytes write into the same ./uploads.
InitDownloadUpload ==
    /\ PdInit /\ UuArrive({[i \in 1..n |-> 0] : n \in 0..MaxFileLen})
    /\ PipeIdle /\ LimIdle /\ TeeIdle /\ DlIdle /\ UpIdle /\ ChIdle
    /\ CuIdle /\ RtIdle /\ PlIdle /\ CsIdle /\ RlIdle /\ ScIdle /\ CpIdle /\ LaIdle /\ TbIdle
SpecDownloadUpload == InitDownloadUpload /\ [][PdNext \/ PdCopyOver \/ UuNext]_vars

\* uploadHandler, two requests at once
InitUploads ==
    /\ UuInit /\ PipeIdle /\ LimIdle /\ TeeIdle /\ DlIdle /\ UpIdle /\ ChIdle
    /\ PdIdle /\ CuIdle /\ RtIdle /\ PlIdle /\ CsIdle /\ RlIdle /\ ScIdle /\ CpIdle /\ LaIdle /\ TbIdle
SpecUploads == InitUploads /\ [][UuNext]_vars

\* readFileWithTimeout; the Go scheduler runs a goroutine that can step
InitTimeout ==
    /\ RtInit /\ PipeIdle /\ LimIdle /\ TeeIdle /\ DiskIdle /\ DlIdle /\ UpIdle
    /\ ChIdle /\ PdIdle /\ CuIdle /\ UuIdle /\ PlIdle /\ CsIdle /\ RlIdle /\ ScIdle /\ CpIdle /\ LaIdle /\ TbIdle
SpecTimeout == InitTimeout /\ [][RtNext]_vars /\ WF_vars(RtGoroutine)

\* readFileWithTimeout; the goroutine runs and the deadline of the context
\* passes, so a select that can take a case takes one
SpecTimeoutFair ==
    InitTimeout /\ [][RtNext]_vars /\ WF_vars(RtGoroutine) /\ WF_vars(RtSelect)

\* ioPipePattern, with the Go scheduler: a goroutine that can step does
SpecPipeFair == Init /\ [][PipeNext]_vars /\ WF_vars(PipeNext)

\* syncPoolTestPattern
InitPool ==
    /\ PlInit /\ PipeIdle /\ LimIdle /\ TeeIdle /\ DiskIdle /\ DlIdle /\ UpIdle
    /\ ChIdle /\ PdIdle /\ CuIdle /\ UuIdle /\ RtIdle /\ CsIdle /\ RlIdle /\ ScIdle /\ CpIdle /\ LaIdle /\ TbIdle
SpecPool == InitPool /\ [][PlNext]_vars

\* compressStream and the stage that reads what it returns
InitCompress ==
    /\ CsInit /\ PipeIdle /\ LimIdle /\ TeeIdle /\ DiskIdle /\ DlIdle /\ UpIdle
    /\ ChIdle /\ PdIdle /\ CuIdle /\ UuIdle /\ RtIdle /\ PlIdle /\ RlIdle /\ ScIdle /\ CpIdle /\ LaIdle /\ TbIdle
SpecCompress == InitCompress /\ [][CsNext]_vars

\* chunkedFilePattern, readPattern
InitLoops ==
    /\ RlInit /\ PipeIdle /\ LimIdle /\ TeeIdle /\ DiskIdle /\ DlIdle /\ UpIdle
    /\ ChIdle /\ PdIdle /\ CuIdle /\ UuIdle /\ RtIdle /\ PlIdle /\ CsIdle /\ ScIdle /\ CpIdle /\ LaIdle /\ TbIdle
SpecLoops == InitLoops /\ [][RlNext]_vars

\* safeCopyFile
InitSafeCopy ==
    /\ ScInit /\ PipeIdle /\ LimIdle /\ TeeIdle /\ DiskIdle /\ DlIdle /\ UpIdle
    /\ ChIdle /\ PdIdle /\ CuIdle /\ UuIdle /\ RtIdle /\ PlIdle /\ CsIdle
    /\ RlIdle /\ CpIdle /\ LaIdle /\ TbIdle
SpecSafeCopy == InitSafeCopy /\ [][ScNext]_vars

\* compressFilesParallel; the Go scheduler runs a goroutine that can step
InitParallel ==
    /\ CpInit /\ PipeIdle /\ LimIdle /\ TeeIdle /\ DiskIdle /\ DlIdle /\ UpIdle
    /\ ChIdle /\ PdIdle /\ CuIdle /\ UuIdle /\ RtIdle /\ PlIdle /\ CsIdle
    /\ RlIdle /\ ScIdle /\ LaIdle /\ TbIdle
SpecParallel == InitParallel /\ [][CpNext]_vars /\ WF_vars(CpNext)

\* LogAnalyzer.AnalyzerFile
InitAnalyzer ==
    /\ LaInit /\ PipeIdle /\ LimIdle /\ TeeIdle /\ DiskIdle /\ DlIdle /\ UpIdle
    /\ ChIdle /\ PdIdle /\ CuIdle /\ UuIdle /\ RtIdle /\ PlIdle /\ CsIdle
    /\ RlIdle /\ ScIdle /\ CpIdle /\ TbIdle
SpecAnalyzer == InitAnalyzer /\ [][LaNext]_vars

\* The ThrottledReaders under io.Copy: the loop keeps calling Read and time
\* advances.
InitThrottle ==
    /\ TbInit /\ PipeIdle /\ LimIdle /\ TeeIdle /\ DiskIdle /\ DlIdle /\ UpIdle
    /\ ChIdle /\ PdIdle /\ CuIdle /\ UuIdle /\ RtIdle /\ PlIdle /\ CsIdle
    /\ RlIdle /\ ScIdle /\ CpIdle /\ LaIdle
SpecThrottle ==
    InitThrottle /\ [][TbNext]_vars /\ WF_vars(TbTick) /\ WF_vars(TbRead)

\* ------------------------------------------------------- claims: io.Pipe

\* C1: when the producer closes the pipe with a fault (CloseWithError, then
\* the deferred Close), a consumer read that ends the stream returns that
\* fault, not end-of-data, the consumer has read exactly the bytes the
\* producer wrote before the fault, and the function does not report success.
C1_FaultReachesConsumer ==
    (clast # Nil /\ perr # Nil) =>
        /\ clast = perr
        /\ received = written
        /\ received = SubSeq(fileData, 1, filePos)
        /\ outcome # "ok"

\* C1 happens: the file read failed after a byte was written, the deferred
\* Close has run, and the consumer's read returned the read fault.
C1_Witness ==
    /\ ppc = "done"
    /\ clast = ReadErr
    /\ Len(received) >= 1

\* C2: the consumer reads the bytes in the order written, none lost or
\* repeated, and when the producer closed normally the read that ends the
\* stream returns end-of-data after exactly the N bytes of the file.
C2_NormalCloseDeliversAll ==
    /\ IsPrefix(compressed, received)
    /\ IsPrefix(received, written)
    /\ IsPrefix(written, handed)
    /\ IsPrefix(handed, fileData)
    /\ (clast # Nil /\ perr = Nil) =>
          /\ clast = EOF
          /\ received = fileData
    /\ outcome = "ok" => compressed = fileData

\* C2 happens: a file of three bytes, not all equal, went through in reads of
\* one byte and the consumer saw end-of-data.
C2_Witness ==
    /\ outcome = "ok"
    /\ Len(fileData) >= 3
    /\ fileData[1] # fileData[2]
    /\ cBufLen = 1
    /\ clast = EOF

\* C3, the states: at most one chunk is pending in the pipe, and whenever the
\* producer is not inside pw.Write every byte it has passed to pw.Write has
\* been returned by a consumer read.
C3_State ==
    /\ Len(wrCh) <= 1
    /\ ppc \notin {"offered", "waitAck"} =>
          /\ wrCh = <<>>
          /\ written = handed
          /\ received = handed

\* C3, the steps: a consumer read leaves its wait only when a write is
\* pending or the pipe is closed, and a write returns only when the reads
\* have taken all of its bytes.
C3_Step ==
    /\ (cpc = "read" /\ cpc' # "read") => (wrCh # <<>> \/ done)
    /\ (ppc = "waitAck" /\ ppc' = "copyRead") => (pb' = <<>> /\ received' = handed')

\* C3: the pipe is an unbuffered rendezvous.
C3_Rendezvous == [](C3_State) /\ [][C3_Step]_vars

\* C3 happens: a write of two bytes is half taken by a read of one byte; the
\* producer is still inside Write, offering the rest.
C3_Witness ==
    /\ ppc = "offered"
    /\ Len(wrCh) = 1
    /\ Len(pb) = 1
    /\ Len(handed) = Len(received) + 1
    /\ Len(received) >= 1
    /\ cBufLen = 1

\* ------------------------------------------------------- claims: io.LimitReader

\* Bytes delivered by the first j reads of `limited`.
RECURSIVE DeliveredBy(_)
DeliveredBy(j) == IF j = 0 THEN <<>> ELSE DeliveredBy(j - 1) \o lrLog[j].bytes

\* C4: over any sequence of reads the limited reader delivers at most
\* min(k, L) bytes, it has delivered exactly min(k, L) when it first returns
\* end-of-data, and every read made once min(k, L) bytes are delivered returns
\* 0 bytes and end-of-data, whether or not the inner reader has bytes left.
C4_LimitedTotal ==
    LET m == Min(lrLimit, Len(lrData)) IN
    /\ \A j \in 1..Len(lrLog) :
         /\ Len(DeliveredBy(j)) <= m
         /\ DeliveredBy(j) = SubSeq(lrData, 1, Len(DeliveredBy(j)))
         /\ lrLog[j].err = EOF => Len(DeliveredBy(j)) = m
         /\ Len(DeliveredBy(j - 1)) = m =>
               (lrLog[j].err = EOF /\ lrLog[j].bytes = <<>>)
         /\ lrLog[j].err \in {Nil, EOF}
    /\ lrReturned => lrAll = SubSeq(lrData, 1, m)

\* C4 happens: the limit is below the content's length, the limit was
\* reached in more than one read, and two reads after it returned
\* end-of-data while the inner reader still had a byte to give.
C4_Witness ==
    /\ lrLimit >= 2
    /\ lrLimit < Len(lrData)
    /\ Len(lrLog) >= 4
    /\ lrLog[1].bytes # <<>> /\ lrLog[2].bytes # <<>>
    /\ lrLog[Len(lrLog)].err = EOF
    /\ lrLog[Len(lrLog) - 1].err = EOF
    /\ lrBuff # <<>> /\ lrBuff[1].bytes # <<>>

\* ------------------------------------------------------- claims: io.TeeReader

\* C9: after every completed read the mirror (the hash) has received exactly
\* the bytes the reads returned, the primary sink (the file) never holds
\* anything but a prefix of them, and once the input was read to end-of-data
\* the file and the mirror both hold the input, byte for byte.
C9_TeeMirrorsInput ==
    /\ tMirror = tReturned
    /\ IsPrefix(tReturned, tData)
    /\ IsPrefix(tFile, tMirror)
    /\ tLast = EOF =>
          /\ tFile = tData
          /\ tMirror = tData
          /\ tWritten = Len(tData)
    /\ (tReport # <<>> /\ tLast = EOF) => tReport[1].checksum = Checksum(tData)

\* C9 happens: an input of three bytes, not all equal, was read to
\* end-of-data in two chunks and the checksum was printed.
C9_Witness ==
    /\ tpc = "done"
    /\ tLast = EOF
    /\ Len(tData) >= 3
    /\ tData[1] # tData[3]
    /\ tFile = tData
    /\ tReport # <<>>

\* ------------------------------------------------------- claims: range download

\* The request reached http.ServeContent with a file of ./uploads.
DlServed == dlDisp # <<>>
DlTotal == Len(disk[dlName].data)
\* The Range header is "bytes=" and one element "first-last".
DlOneRange ==
    /\ dlRange.unit = "bytes"
    /\ Len(dlRange.elems) = 1
    /\ dlRange.elems[1].kind = "range"
DlFirst == dlRange.elems[1].first
DlLast == dlRange.elems[1].last

\* The header resolves to a valid RangeSpec: "a-" or "a-b" with
\* a <= b and a < total, or "-N" with N >= 1 on a content that is not empty.
C5_Resolves ==
    /\ DlOneRange
    /\ \/ /\ DlFirst.k = "num" /\ DlFirst.v < DlTotal
          /\ (DlLast.k = "empty" \/ (DlLast.k = "num" /\ DlLast.v >= DlFirst.v))
       \/ /\ DlFirst.k = "empty" /\ DlLast.k = "num"
          /\ DlLast.v >= 1 /\ DlTotal >= 1
C5_Start ==
    IF DlFirst.k = "num" THEN DlFirst.v
    ELSE IF DlLast.v > DlTotal THEN 0 ELSE DlTotal - DlLast.v
C5_End ==
    IF DlFirst.k = "num" /\ DlLast.k = "num" /\ DlLast.v < DlTotal
      THEN DlLast.v
      ELSE DlTotal - 1

\* C5: a request whose Range header resolves to a valid {start, end, total}
\* (an end left out or beyond total-1 counts as total-1) is answered 206
\* with Content-Range start-end/total and Content-Length end-start+1; byte i
\* of the body is byte start+i of the file, and when the copy ends without a
\* fault the body has exactly end-start+1 bytes.
C5_RangeServed ==
    (DlServed /\ C5_Resolves) =>
        /\ dlStatus = 206
        /\ dlCRange = <<[star |-> FALSE, start |-> C5_Start, end |-> C5_End,
                         total |-> DlTotal]>>
        /\ dlCLen = <<[mime |-> FALSE, n |-> C5_End - C5_Start + 1]>>
        /\ Len(dlBody) <= C5_End - C5_Start + 1
        /\ \A i \in 1..Len(dlBody) : dlBody[i] = disk[dlName].data[C5_Start + i]
        /\ (dpc = "done" /\ dlErr = Nil) => Len(dlBody) = C5_End - C5_Start + 1

\* C5 happens: "bytes=1-<MaxPos>" on a file of three bytes was answered in
\* full: the end was clamped to 2 and the bytes at offsets 1 and 2 were sent.
C5_Witness ==
    /\ dpc = "done"
    /\ dlErr = Nil
    /\ DlServed
    /\ DlTotal = 3
    /\ dlRange = [unit |-> "bytes", elems |-> <<Range(Num(1), Num(MaxPos))>>]
    /\ dlStatus = 206
    /\ dlBody = <<2, 3>>

\* The header is one range whose start is a number >= total.
C6_StartBeyond ==
    /\ DlOneRange
    /\ DlFirst.k = "num"
    /\ DlFirst.v >= DlTotal

\* C6 as claimed: every range request whose start is >= total is answered
\* 416 with Content-Range "bytes */total" and no content byte.
C6_Original ==
    (DlServed /\ C6_StartBeyond) =>
        /\ dlStatus = 416
        /\ dlCRange = <<[star |-> TRUE, total |-> DlTotal]>>
        /\ dlBody = <<>>

\* C6 as amended: on a content that is not empty, a range request whose
\* start is >= total is answered 416 with Content-Range "bytes */total" and
\* no content byte; on an empty content the Range header is ignored: 200,
\* no Content-Range, no content byte.
C6_Unsatisfiable ==
    (DlServed /\ C6_StartBeyond) =>
        /\ dlBody = <<>>
        /\ DlTotal > 0 =>
              /\ dlStatus = 416
              /\ dlCRange = <<[star |-> TRUE, total |-> DlTotal]>>
              /\ dpc = "done"
        /\ DlTotal = 0 =>
              /\ dlStatus = 200
              /\ dlCRange = <<>>

\* C6 happens: on a file of three bytes "bytes=3-" was answered 416.
C6_Witness ==
    /\ dpc = "done"
    /\ DlServed
    /\ DlTotal = 3
    /\ dlRange = [unit |-> "bytes", elems |-> <<Range(Num(3), Empty)>>]
    /\ dlStatus = 416

\* ------------------------------------------------------- claims: upload

\* C7: an upload whose body is larger than the limit ends 413 and leaves no
\* destination file (the runs that end in a storage fault, 500, set aside).
C7_OversizeRejected ==
    (/\ upc = "done"
     /\ upMethod = "POST"
     /\ upForm = "ok"
     /\ Len(upBody) > MaxUploadBytes
     /\ upStatus # 500) =>
        /\ upStatus = 413
        /\ ~disk[upFileName].exists

\* C8: when the copy faults after the destination was created, the
\* destination is gone by the time the fault is answered.
C8_PartialRemoved ==
    (upc = "done" /\ upCreated /\ upStatus = 500) => ~disk[upFileName].exists

\* ------------------------------------------------------- claims: step11 readers

\* C11 as claimed: the callback is invoked once for every Read that
\* succeeds (the terminal zero-length read too) and for no Read in which the
\* inner source returned a fault.
C11_Original == prHasCb => prCalls = prReads - prFaults

\* C11 as amended: with a callback set, ProgressReader invokes it exactly
\* once for every Read call, whatever the inner Read returned: bytes, the
\* terminal zero-length read or a fault; without one it invokes nothing.
C11_CallbackPerRead == prCalls = (IF prHasCb THEN prReads ELSE 0)

\* C11 happens: reads that returned bytes, a read that faulted and the
\* terminal read have each invoked the callback.
C11_Witness ==
    /\ prHasCb
    /\ prFaults >= 1
    /\ prCurrent >= 1
    /\ prRet.err = EOF
    /\ prCalls = prReads

\* C12: each ProgressReader.Read returns the n, the bytes and the err of the
\* one inner Read it made, so the bytes seen through it are the bytes the
\* file gave, and the cumulative value given to the callback is the sum of
\* the byte counts returned so far.
C12_ForwardsUnchanged ==
    /\ prRet = prInner
    /\ prSeen = Take(chData, chOff)
    /\ prCurrent = Len(prSeen)
    /\ (prHasCb /\ prReads > 0) =>
           prArg = <<[current |-> Len(prSeen), total |-> Len(chData)]>>

\* C12 happens: a file of three bytes was read to end-of-data in several
\* reads and the callback was last told 3 of 3.
C12_Witness ==
    /\ prHasCb
    /\ prReads >= 3
    /\ Len(chData) = 3
    /\ prSeen = chData
    /\ prRet.err = EOF
    /\ prArg = <<[current |-> 3, total |-> 3]>>

\* C13: at every Read of ThrottledReader the bytes it considers available
\* are at least 0 and at most bytesPerSec.
C13_TokensBounded == trReads > 0 => (0 <= trAllowed /\ trAllowed <= trBps)

\* C14: ThrottledReader.Read asks the inner source for no more bytes than
\* are allowed; with nothing allowed it sleeps and returns 0 bytes with a
\* nil error without calling the inner source; it returns io.EOF only when
\* the inner source returned io.EOF in that call.
C14_CappedAndStalls ==
    /\ trAsked # <<>> => (trAsked[1] <= trAllowed /\ trAsked[1] <= trLen)
    /\ (trReads > 0 /\ trAllowed = 0) =>
           /\ trRet = [n |-> 0, bytes |-> <<>>, err |-> Nil]
           /\ trAsked = <<>>
           /\ trSlept
    /\ trRet.err = EOF => (trAsked # <<>> /\ prRet.err = EOF)

\* C14 happens: with bytes left in the file and a buffer that is not empty,
\* a Read found nothing allowed, slept and returned 0, nil.
C14_Witness ==
    /\ trReads > 0
    /\ trAllowed = 0
    /\ trLen >= 1
    /\ trSlept
    /\ trAsked = <<>>
    /\ chOff < Len(chData)
    /\ trRet = [n |-> 0, bytes |-> <<>>, err |-> Nil]

\* C15: once a Read of ThrottledReader or of ProgressReader has returned
\* end-of-data, every later Read of it with a buffer that is not empty
\* returns end-of-data, as long as the file does not fault.
C15_ExhaustionIdempotent ==
    /\ (trHadEOF /\ trLen >= 1 /\ ~(trAsked # <<>> /\ prInner.err = ReadErr))
          => trRet.err = EOF
    /\ (prHadEOF /\ prInner.err # ReadErr) => prRet.err = EOF

\* ------------------------------------------------------- claims: download name

\* C16: in both download handlers the filename of Content-Disposition is
\* the last path segment of the `file` parameter and nothing else of it,
\* so it holds no path separator and is the same for any two parameters
\* with the same last segment.
C16_HeaderNameIsBase ==
    /\ pdDisp # <<>> => pdDisp = << <<Base(pdParam)>> >>
    /\ dlDisp # <<>> => dlDisp = <<Base(dlParam)>>

\* ------------------------------------------------------- claims: upload path

\* The destination of an upload: the root joined with the base name of the
\* filename the client sent, resolved.
C17_Dest == Resolve(<<"uploads", Base(upRawName)>>)

\* C17: whatever filename the client sends, a destination is created only
\* at ./uploads joined with the base name of that filename, nothing is
\* created or truncated outside ./uploads, and an upload whose destination
\* would resolve outside ./uploads (the base name is "..") ends rejected
\* with ./uploads as it was.
C17_DestinationInRoot ==
    /\ upCreated => (upDest = <<"uploads", Base(upRawName)>> /\ InRoot(upDest))
    /\ upOutside = {}
    /\ (upc = "done" /\ upMethod = "POST" /\ upForm = "ok" /\ ~InRoot(C17_Dest)) =>
           /\ upStatus = 500
           /\ ~upCreated
           /\ disk = upDisk0

\* C17 happens: a part sent as "../a.bin" with content was stored as
\* uploads/a.bin, over the a.bin that was there.
C17_Witness ==
    /\ upc = "done"
    /\ upStatus = 200
    /\ upRawName = <<"..", "a.bin">>
    /\ upDest = <<"uploads", "a.bin">>
    /\ upDisk0["a.bin"].exists
    /\ Len(upBody) >= 2
    /\ disk["a.bin"] = File(upBody)

\* ------------------------------------------------------- claims: multi-range, malformed range

\* A well-formed range: "a-", "a-b" with a <= b, or "-N".
C18_WellFormed(e) ==
    /\ e.kind = "range"
    /\ \/ /\ e.first.k = "num"
          /\ (e.last.k = "empty" \/ (e.last.k = "num" /\ e.last.v >= e.first.v))
       \/ (e.first.k = "empty" /\ e.last.k = "num")

\* The header is "bytes=" and two or more well-formed ranges.
C18_MultiRange ==
    /\ dlRange.unit = "bytes"
    /\ Len(dlRange.elems) >= 2
    /\ \A i \in 1..Len(dlRange.elems) : C18_WellFormed(dlRange.elems[i])

\* The regions of a content of `total` bytes that the ranges name, in the
\* order of the header; a range that starts at or after total names none.
RECURSIVE C18_Regions(_, _)
C18_Regions(elems, total) ==
    IF elems = <<>> THEN <<>>
    ELSE LET e == Head(elems)
             rest == C18_Regions(Tail(elems), total)
         IN
         IF e.first.k = "empty"
           THEN <<[start |-> total - Min(e.last.v, total),
                   length |-> Min(e.last.v, total)]>> \o rest
         ELSE IF e.first.v >= total THEN rest
         ELSE <<[start |-> e.first.v,
                 length |-> (IF e.last.k = "empty" \/ e.last.v >= total
                               THEN total ELSE e.last.v + 1) - e.first.v]>> \o rest

RECURSIVE C18_Length(_)
C18_Length(regions) ==
    IF regions = <<>> THEN 0 ELSE Head(regions).length + C18_Length(Tail(regions))

RECURSIVE C18_Bytes(_, _)
C18_Bytes(regions, data) ==
    IF regions = <<>> THEN <<>>
    ELSE SubSeq(data, Head(regions).start + 1,
                Head(regions).start + Head(regions).length)
         \o C18_Bytes(Tail(regions), data)

\* The copy to the client has ended without a fault.
DlComplete == dpc = "done" /\ dlErr = Nil

\* C18 as claimed: a multi-range request is answered 200 with the whole
\* content.
C18_Original ==
    (DlServed /\ C18_MultiRange) =>
        /\ dlStatus = 200
        /\ DlComplete => dlBody = disk[dlName].data

\* C18 as amended: a request with two or more well-formed ranges is
\* answered 200 with the whole content only when the regions that lie in
\* the content add up to more than its length (or none does and the
\* content is empty); otherwise the regions are served with status 206, as
\* multipart/byteranges when there are two or more and with Content-Range
\* when there is one, and when none lies in the content the answer is 416.
C18_MultiRangeServed ==
    (DlServed /\ C18_MultiRange) =>
        LET data == disk[dlName].data
            regions == C18_Regions(dlRange.elems, Len(data))
        IN
        IF C18_Length(regions) > Len(data) \/ (regions = <<>> /\ data = <<>>) THEN
            /\ dlStatus = 200
            /\ dlCRange = <<>>
            /\ DlComplete => dlBody = data
        ELSE IF Len(regions) >= 2 THEN
            /\ dlStatus = 206
            /\ dlCRange = <<>>
            /\ dlCLen = <<[mime |-> TRUE, n |-> C18_Length(regions)]>>
            /\ DlComplete => dlBody = C18_Bytes(regions, data)
        ELSE IF Len(regions) = 1 THEN
            /\ dlStatus = 206
            /\ dlCRange = <<[star |-> FALSE, start |-> regions[1].start,
                             end |-> regions[1].start + regions[1].length - 1,
                             total |-> Len(data)]>>
            /\ DlComplete => dlBody = C18_Bytes(regions, data)
        ELSE
            /\ dlStatus = 416
            /\ dlBody = <<>>

\* C18 happens: "bytes=0-0,1-" on a file of three bytes was answered 206
\* multipart/byteranges, byte 0 and then bytes 1 and 2.
C18_Witness ==
    /\ DlServed
    /\ DlComplete
    /\ DlTotal = 3
    /\ dlRange = [unit |-> "bytes",
                  elems |-> <<Range(Num(0), Num(0)), Range(Num(1), Empty)>>]
    /\ dlStatus = 206
    /\ dlCLen = <<[mime |-> TRUE, n |-> 3]>>
    /\ dlBody = <<1, 2, 3>>

\* An element the parser rejects on a content of `total` bytes: no "-", a
\* start or a suffix length that is no number, or a start inside the content
\* with an end that is no number or lies before the start.
C19_Rejected(e, total) ==
    \/ e.kind = "nodash"
    \/ /\ e.kind = "range"
       /\ \/ e.first.k = "bad"
          \/ (e.first.k = "empty" /\ e.last.k # "num")
          \/ /\ e.first.k = "num"
             /\ e.first.v < total
             /\ (e.last.k = "bad" \/ (e.last.k = "num" /\ e.last.v < e.first.v))

\* The Range header is malformed: another unit than bytes, or an element
\* that is rejected.
C19_Malformed ==
    /\ dlRange # NoHeader
    /\ \/ dlRange.unit # "bytes"
       \/ \E i \in 1..Len(dlRange.elems) : C19_Rejected(dlRange.elems[i], DlTotal)

\* C19 as claimed: a malformed Range header is taken for none: 200 and the
\* whole content.
C19_Original ==
    (DlServed /\ C19_Malformed) =>
        /\ dlStatus = 200
        /\ DlComplete => dlBody = disk[dlName].data

\* C19 as amended: a request whose Range header has another unit than
\* bytes or an element that is rejected ends in status 416, without
\* Content-Range and without a byte of the content.
C19_MalformedRejected ==
    (DlServed /\ C19_Malformed) =>
        /\ dlStatus = 416
        /\ dlCRange = <<>>
        /\ dlBody = <<>>
        /\ dpc = "done"

\* C19 happens: "bytes=abc-" on a file of three bytes was answered 416.
C19_Witness ==
    /\ DlServed
    /\ dpc = "done"
    /\ DlTotal = 3
    /\ dlRange = [unit |-> "bytes", elems |-> <<Range(Bad, Empty)>>]
    /\ dlStatus = 416
    /\ dlBody = <<>>

\* ------------------------------------------------------- claims: faults through the adapters

\* C20: an adapter returns the fault of its inner stage and no terminal
\* signal of its own: a Read of ProgressReader, ThrottledReader or
\* UpperCaseReader whose inner Read faulted returns that fault, one that
\* returns io.EOF got it from the inner Read, and a Write of
\* LineNumberWriter in which a dest.Write faulted returns that fault.
C20_FaultsPassThrough ==
    /\ prInner.err = ReadErr => prRet.err = ReadErr
    /\ (trAsked # <<>> /\ prRet.err = ReadErr) => trRet.err = ReadErr
    /\ prRet.err = EOF => prInner.err = EOF
    /\ cuInner.err \notin {Nil, EOF, "none"} => cuReadRet.err = cuInner.err
    /\ cuReadRet.err = EOF => cuInner.err = EOF
    /\ lwDestErrs > 0 => lwRet.err = WriteErr

\* ------------------------------------------------------- claims: not found

\* C27: a download request, to /download or /range-download, that names a
\* file ./uploads does not hold ends in status 404, and at no point of it is
\* Content-Disposition, Content-Length or Content-Range set or a byte of
\* content written.
C27_AbsentIsNotFound ==
    /\ (dlParam # <<>> /\ ~disk[Base(dlParam)].exists) =>
          /\ dpc = "done" => dlStatus = 404
          /\ dlStatus \in {0, 404}
          /\ dlDisp = <<>> /\ dlCLen = <<>> /\ dlCRange = <<>>
          /\ dlBody = <<>>
    /\ (pdParam # <<>> /\ ~disk[Base(pdParam)].exists) =>
          /\ pdc = "done" => pdStatus = 404
          /\ pdStatus \in {0, 404}
          /\ pdDisp = <<>> /\ pdCLen = <<>>
          /\ pdBody = <<>>

\* C27 happens: both handlers have answered 404 for zz.bin, which is not in
\* ./uploads, while a.bin is.
C27_Witness ==
    /\ dpc = "done" /\ pdc = "done"
    /\ dlParam = <<"zz.bin">> /\ pdParam = <<"zz.bin">>
    /\ disk["a.bin"].exists /\ ~disk["zz.bin"].exists
    /\ dlStatus = 404 /\ pdStatus = 404

\* ------------------------------------------------------- claims: upload, part and sync

\* C28: an upload (POST) whose body is not a multipart form or holds no part
\* "file" ends in status 400, and at no point of it has os.Create run:
\* ./uploads is as it was when the request arrived, no file created or
\* truncated in it or outside it.
C28_NoPartNoFile ==
    (upMethod = "POST" /\ upForm \in {"bad", "nofile"}) =>
        /\ upc = "done" => upStatus = 400
        /\ upStatus \in {0, 400}
        /\ ~upCreated
        /\ upDest = <<>>
        /\ disk = upDisk0
        /\ upOutside = {}

\* C28 happens: a POST without the part "file", whose filename would have
\* been a.bin, was answered 400 while ./uploads held an a.bin.
C28_Witness ==
    /\ upc = "done"
    /\ upMethod = "POST"
    /\ upForm = "nofile"
    /\ upFileName = "a.bin"
    /\ upDisk0["a.bin"].exists
    /\ upStatus = 400
    /\ disk = upDisk0

\* C29: once the success response of an upload is written, every byte of
\* the destination has reached the storage device (dst.Sync() or
\* dst.Close() came first), and the count the response reports is the
\* number of bytes the destination file holds.
C29_SyncedBeforeSuccess ==
    (upStatus = 200 /\ InRoot(upDest)) =>
        /\ upStored = disk[upDest[2]].data
        /\ upReply = <<Len(disk[upDest[2]].data)>>

\* ------------------------------------------------------- claims: concurrent uploads

\* C21: of two concurrent uploads, neither creates, truncates or writes a
\* file the other has open for writing, and when both have ended every file
\* of ./uploads holds bytes of one upload only: it is the start of the part
\* of a request that named it.
C21_SinkExclusive ==
    /\ ~uuClash
    /\ (\A r \in DOMAIN uupc : uupc[r] = "done") =>
         \A f \in DiskNames :
            disk[f].exists =>
               \E r \in DOMAIN uupc :
                  uuName[r] = f /\ IsPrefix(disk[f].data, uuBody[r])

\* ------------------------------------------------------- claims: timeout

\* C22: once readFileWithTimeout has returned the timeout fault, the reading
\* goroutine makes no further Read of the file, and it terminates.
C22_ReadAborted ==
    /\ [](rtLate = 0)
    /\ (rtRet.err = TimeoutErr ~> rtg = "done")

\* ------------------------------------------------------- claims: pipe, producer ends

\* C23: whenever the consumer of ioPipePattern has stopped, at end-of-data or
\* early on a fault, the producer goroutine terminates: it is not left
\* blocked in pw.Write.
C23_ProducerEnds == (cpc = "done") ~> (ppc = "done")

\* ------------------------------------------------------- claims: buffer pool

\* C24: in every interleaving of the copyFileWithPool calls, a buffer taken
\* from bufferPool is held by one call only and is not in the pool while
\* held, and a call that took a buffer and has returned, with or without a
\* fault, has put that buffer back.
C24_BufferExclusive ==
    /\ \A c \in DOMAIN plHeld :
          plHeld[c] # 0 =>
             /\ plHeld[c] \notin plPool
             /\ \A d \in DOMAIN plHeld : d # c => plHeld[d] # plHeld[c]
    /\ \A c \in DOMAIN plpc :
          (plpc[c] = "done" /\ plGot[c] # 0) =>
             /\ plBack[c] = plGot[c]
             /\ plHeld[c] = 0

\* C24 happens: a call whose copy faulted has put its buffer back, a second
\* call holds that same buffer, and a third holds another.
C24_Witness ==
    \E c, d, e \in DOMAIN plpc :
       /\ plpc[c] = "done" /\ plErr[c] = WriteErr /\ plBack[c] # 0
       /\ plpc[d] = "copy" /\ plHeld[d] = plBack[c]
       /\ plpc[e] = "copy" /\ plHeld[e] # plHeld[d]

\* ------------------------------------------------------- claims: rate, composition

\* C25: from the first Read of a ThrottledReader of rate R on, after T
\* seconds the bytes delivered are at most R*T plus one bucket of R bytes,
\* and, while the caller reads without pause with a full buffer and the
\* source has bytes left, they are short of R*T by at most one bucket.
\* (Times are in ticks, so both sides are multiplied by TicksPerSec.)
C25_RateAccuracy ==
    trFirst >= 0 =>
        /\ Len(prSeen) * TicksPerSec
              <= trBps * (now - trFirst) + trBps * TicksPerSec
        /\ (~trIdle /\ chOff < Len(chData) /\ prFaults = 0) =>
              trBps * (now - trFirst) - Len(prSeen) * TicksPerSec
                 <= trBps * TicksPerSec

\* C26: the adapters are nested Progress(Throttle(source)): whenever the
\* progress callback is invoked, the cumulative count it reports is at most
\* the number of bytes the ThrottledReader has returned to its caller by
\* then. (main of step11 composes no limiting stage, so the other half of
\* the claim, that the limiter is handed no byte outside the limit, has
\* nothing to constrain there.)
C26_ProgressBehindLimiter ==
    prArg # <<>> => prArg[1].current <= trOutAtCb

\* ------------------------------------------------------- claims: compressStream

\* C30: when the work of compressStream's goroutine was ended by a fault of
\* the upstream reader, the read that ends the stream downstream returns
\* that fault, not end-of-data.
C30_FaultNotEOF ==
    (csCopyErr # Nil /\ csEnd # "none") => csEnd = csCopyErr

\* ------------------------------------------------------- claims: UpperCaseReader, LineNumberWriter

\* C34: when UpperCaseReader has been read to end-of-data, whatever the
\* chunking of its source and also when the source returns its last bytes
\* together with io.EOF, the bytes it returned are the upper-cased input,
\* as many as the input has.
C34_UpperCasesAll ==
    cuReadRet.err = EOF =>
        /\ cuGot = ToUpper(cuData)
        /\ Len(cuGot) = Len(cuData)

\* C35: a Write of LineNumberWriter never returns a count below len(p)
\* with a nil error, and the count it returns is the number of bytes of p
\* its destination accepted.
C35_SinkContract ==
    lwRet.err # "none" =>
        /\ lwRet.err = Nil => lwRet.n = Len(cuChunk)
        /\ lwRet.n = lwAccepted


\* ------------------------------------- claims: download during an upload
\* C31: a full download that completes has streamed exactly the number of
\* content bytes it declared in Content-Length, also when an upload creates,
\* truncates or extends the same file while the download is running.
C31_StreamsDeclared ==
    (pdc = "done" /\ pdLog # <<>>) => Len(pdBody) = pdCLen[1]


C32_RollsBackExactly ==
    /\ (scpc = "done" /\ scErr # Nil /\ scCreated) =>
           ~scDstOpen /\ ~scDst.exists
    /\ (scpc = "done" /\ scErr = Nil) =>
           /\ scDst.exists
           /\ scDst.data = scSrc.data
           /\ scSynced = <<scSrc.data>>
           /\ ~scDstOpen
    /\ (scpc # "idle" /\ ~scSrc.exists) =>
           ~scCreated /\ scDst \in {NoFile} \cup {File(Ramp(n)) : n \in 0..MaxFileLen}

\* A copy fault after bytes were written has been rolled back; a copy has
\* succeeded.
C32_Witness ==
    /\ scpc = "done"
    /\ scErr = CopyErr
    /\ scPos > 0
    /\ ~scDst.exists


\* -------------------------------- claims: readFileWithTimeout, outcomes
\* The three outcomes of readFileWithTimeout: data with a nil error, an
\* error of os.Open or of io.ReadAll, or the timeout.
RtOutcomes ==
    {[data |-> rtData, err |-> Nil],
     [data |-> <<>>, err |-> OpenErr],
     [data |-> <<>>, err |-> ReadErr],
     [data |-> <<>>, err |-> TimeoutErr]}

\* C38: readFileWithTimeout returns, once, one of its three outcomes, and
\* the reading goroutine ends: its send goes through also after the function
\* has returned the timeout.
C38_OneOutcomeNoLeak ==
    /\ [](rtm = "returned" => rtRet \in RtOutcomes)
    /\ [][rtm = "returned" => (rtm' = "returned" /\ rtRet' = rtRet)]_vars
    /\ <>[](rtm = "returned" /\ rtg = "done")

\* The function has returned the timeout and the goroutine has ended with
\* its value left in the channel.
C38_Witness ==
    /\ rtRet.err = TimeoutErr
    /\ rtg = "done"
    /\ rtResultChan \o rtErrorChan # <<>>


\* ------------------------------------------ claims: compressFilesParallel
\* The files of the list on which compressFile fails.
CpFailing == {f \in 1..Len(cpFiles) : cpFiles[f]}

\* C36: with one worker or more, compressFilesParallel returns and every
\* worker ends; by then each file of the list was received from jobs once,
\* compressed once, and one result per file was received from results.
C36_EachFileOnce ==
    cpWorkers >= 1 =>
        /\ <>[](cpm = "returned" /\ \A w \in Workers : cpw[w] \in {"done", "none"})
        /\ [](cpm = "returned" =>
                /\ \A f \in 1..Len(cpFiles) : cpTaken[f] = 1 /\ cpDone[f] = 1
                /\ cpSeen = Len(cpFiles))
        /\ [](\A f \in 1..Len(cpFiles) : cpTaken[f] <= 1 /\ cpDone[f] <= 1)

\* Two workers have shared a list of three files and the function has
\* returned.
C36_Witness ==
    /\ cpm = "returned"
    /\ cpWorkers = 2
    /\ Len(cpFiles) = 3
    /\ cpSeen = 3

\* C37: compressFilesParallel returns nil only if every file of the list was
\* compressed successfully, whatever the worker count; otherwise it returns
\* an error whose count is the number of files whose compression failed.
C37_NilMeansAllCompressed ==
    cpm = "returned" =>
        /\ cpRet = Nil =>
              \A f \in 1..Len(cpFiles) : cpDone[f] = 1 /\ ~cpFiles[f]
        /\ cpRet # Nil => cpRet = Failed(Cardinality(CpFailing))


\* ------------------------------------------------- claims: LogAnalyzer
\* C40: when the log file cannot be opened, AnalyzerFile ends by returning
\* an error to its caller, having read nothing and with the statistics as
\* they were.
C40_OpenFailureReported ==
    (~laOpenOk /\ lapc \in {"returned", "panicked"}) =>
        /\ lapc = "returned"
        /\ laRet \notin {"none", Nil}
        /\ laReads = 0
        /\ laStats = NewStats


\* ------------------------------------- claims: ThrottledReader, progress
\* C39: for a rate of 1 or more and a finite source, a copy loop that keeps
\* calling Read while time advances receives every byte of the source and
\* then io.EOF.
C39_ThrottledCopyEnds ==
    <>(tbEOF /\ tbGot = tbSize)

=============================================================================
